---- MODULE Spec2Model ----
(***************************************************************************)
(* Model of the single-shard storage engine of graph-db                    *)
(* (src/graph_storage/storage.py), as the storage tests and the graph      *)
(* engine (src/graph_engine/engine.py) construct and call it.              *)
(*                                                                         *)
(* The properties file is modelled byte by byte (records are not aligned), *)
(* the node_ids and edges files word by word: every access the code makes  *)
(* to these two files is a 4-byte access at a multiple of 4.               *)
(* A Python value is a record [t, v]: t is the Python type and v a         *)
(* sequence of integers (<<n>> for an int, <<0>>/<<1>> for a bool, the     *)
(* code points for a str and <<sign, mantissa, exponent>> for a float      *)
(* worth (-1)^sign * mantissa * 2^exponent).                               *)
(***************************************************************************)
EXTENDS Integers, Sequences, FiniteSets, TLC

\* new: the flag the store was constructed with; properties, node_ids,
\* edges: the contents of the three files; node_rets, edge_rets: the ids
\* create_node and create_edge have returned, in call order; deleted,
\* removed: the ids delete_node and remove_edge have been called with;
\* visited_nodes: the module-level dict of the graph engine; frames: the
\* position and the locals of each request thread of the engine that is
\* inside find_neighbours or clear_visited_nodes
\* released: the query ids whose entry a clear_visited_nodes call removed
\* and that no find_neighbours call has used since
\* call: the last recorded call of the engine, its arguments and outcome
\* file_mmap: one of the three files as its mmap object holds it: the name,
\* the bytes mapped and, as history, the last byte written at each offset
\* and the number of times the file has grown
\* dbms: the locals of DBMS.find_neighbours, the requests it has sent and
\* the visited_nodes of the worker whose files are not modelled as variables
VARIABLES new, properties, node_ids, edges, node_rets, edge_rets, deleted, removed,
          visited_nodes, frames, released, dbms, call, file_mmap

vars == <<new, properties, node_ids, edges, node_rets, edge_rets, deleted, removed,
          visited_nodes, frames, released, dbms, call, file_mmap>>

(***************************************************************************)
(* Bounds of the model.                                                    *)
(***************************************************************************)
\* highest node id whose slot lies in the modelled part of the node_ids file,
\* and the number of create_node calls of a behaviour
MaxNodeId == 2
\* highest edge id whose slot lies in the modelled part of the edges file,
\* and the number of create_edge calls of a behaviour
MaxEdgeId == 2
\* number of bytes of the properties file that the model keeps
PropBytes == 64
\* a record read from the file is decoded exactly up to this many properties
MaxParseProps == 3
\* ... and up to this many bytes per text
MaxParseText == 14
\* number of bytes of the properties file kept where one record of several
\* thousand bytes is written
LongBytes == 4400
\* number of GraphEngine.create_node calls of a behaviour
MaxEngineNodes == 3
\* number of bytes of the properties file kept under the graph engine
EngineBytes == 224
\* highest hop budget of a find_neighbours call
MaxHops == 2

(***************************************************************************)
(* Program constants.                                                      *)
(***************************************************************************)
SIZE_BOOL == 1
SIZE_INT == 4
SIZE_UINT == 4
SIZE_FLOAT == 4
SIZE_NODE_ID == 3 * SIZE_UINT
SIZE_EDGE_ID == 7 * SIZE_UINT
TYPE_BOOL == -1
TYPE_INT == -2
TYPE_UINT == -3
TYPE_FLOAT == -4
NONE == 0
EDGE_ID_NONE == NONE
NODE_ID_NONE == NONE
PROPERTY_ADDRESS_NONE == NONE

\* struct.unpack('!I') of four bytes whose first is >= 128 is a number
\* >= 2^31; such a number only ever occurs as a length or an address far
\* outside the modelled part of a file and is collapsed to this one value.
HugeUint == 255 * 8388608 + 8388607

(***************************************************************************)
(* Python values.                                                          *)
(***************************************************************************)
PyInt(n) == [t |-> "int", v |-> <<n>>]
PyBool(b) == [t |-> "bool", v |-> <<IF b THEN 1 ELSE 0>>]
PyStr(cps) == [t |-> "str", v |-> cps]
PyFloat(s, m, e) == [t |-> "float", v |-> <<s, m, e>>]
PyNone == [t |-> "NoneType", v |-> <<>>]
\* a Python int of 2^31 .. 2^32 - 1, written hi * 2^16 + lo with
\* 2^15 <= hi < 2^16 and 0 <= lo < 2^16
PyBig(hi, lo) == [t |-> "int", v |-> <<hi, lo>>]

RECURSIVE Normalize(_, _, _)
\* the canonical <<sign, odd mantissa, exponent>> of (-1)^s * m * 2^e
Normalize(s, m, e) ==
  IF m = 0 THEN <<0, 0, 0>>
  ELSE IF m % 2 = 0 THEN Normalize(s, m \div 2, e + 1)
  ELSE <<s, m, e>>

\* the number a Python value stands for in a comparison (True == 1 == 1.0)
NumOf(x) ==
  IF x.t = "int" THEN Normalize(IF x.v[1] < 0 THEN 1 ELSE 0,
                                IF x.v[1] < 0 THEN 0 - x.v[1] ELSE x.v[1], 0)
  ELSE IF x.t = "bool" THEN Normalize(0, x.v[1], 0)
  ELSE Normalize(x.v[1], x.v[2], x.v[3])

IsNum(x) == x.t \in {"int", "bool", "float"}

\* Python's == on two values
PyEq(x, y) ==
  IF x.t = y.t /\ x.t # "float" THEN x.v = y.v
  ELSE IsNum(x) /\ IsNum(y) /\ NumOf(x) = NumOf(y)

(***************************************************************************)
(* Python dicts: a sequence of <<key, value>> pairs in insertion order,    *)
(* keys (sequences of code points) pairwise distinct.                      *)
(***************************************************************************)
DictKeys(d) == {d[i][1] : i \in DOMAIN d}
DictHas(d, k) == \E i \in DOMAIN d : d[i][1] = k
DictGet(d, k) == d[CHOOSE i \in DOMAIN d : d[i][1] = k][2]
\* d[k] = v
DictSet(d, k, v) ==
  IF DictHas(d, k)
  THEN [i \in DOMAIN d |-> IF d[i][1] = k THEN <<k, v>> ELSE d[i]]
  ELSE Append(d, <<k, v>>)
\* d1 == d2
DictEq(d1, d2) ==
  /\ DictKeys(d1) = DictKeys(d2)
  /\ \A k \in DictKeys(d1) : PyEq(DictGet(d1, k), DictGet(d2, k))

(***************************************************************************)
(* struct.pack / struct.unpack and the UTF-8 codec.                        *)
(***************************************************************************)
\* struct.pack('!I', x), 0 <= x < 2^31
_pack_uint(x) ==
  <<(x \div 16777216) % 256, (x \div 65536) % 256, (x \div 256) % 256, x % 256>>

\* struct.unpack('!I', b)
_unpack_uint(b) ==
  IF b[1] >= 128 THEN HugeUint
  ELSE b[1] * 16777216 + b[2] * 65536 + b[3] * 256 + b[4]

\* struct.pack('!i', x): two's complement, -2^31 <= x < 2^31
_pack_int(x) ==
  <<(x \div 16777216) % 256, (x \div 65536) % 256, (x \div 256) % 256, x % 256>>

\* struct.unpack('!i', b)
_unpack_int(b) ==
  (IF b[1] >= 128 THEN b[1] - 256 ELSE b[1]) * 16777216
    + b[2] * 65536 + b[3] * 256 + b[4]

\* struct.pack('!?', x)
_pack_bool(x) == <<IF x.v[1] # 0 THEN 1 ELSE 0>>

\* mutant of _unpack_bool: every byte reads as True
_unpack_bool_true(b) == PyBool(TRUE)

\* struct.unpack('!?', b): any non-zero byte is True
_unpack_bool(b) == PyBool(b[1] # 0)

RECURSIVE BitLen(_)
BitLen(m) == IF m = 0 THEN 0 ELSE 1 + BitLen(m \div 2)

\* the four bytes of sign s, biased exponent and 23-bit fraction
FloatBytes(s, biased, frac) ==
  <<(s * 128) + (biased \div 2),
    ((biased % 2) * 128) + (frac \div 65536),
    (frac \div 256) % 256,
    frac % 256>>

\* q = m >> sh and r = the sh bits dropped: round to nearest, ties to even
RoundHalfEven(q, r, half) ==
  IF r > half \/ (r = half /\ q % 2 = 1) THEN q + 1 ELSE q

\* the 24-bit significand of the k-bit m and the carry of the rounding
Mant24(m, k) ==
  IF k <= 24 THEN m * (2 ^ (24 - k))
  ELSE RoundHalfEven(m \div (2 ^ (k - 24)), m % (2 ^ (k - 24)), 2 ^ (k - 25))

PackNormal(s, e, k, mant) ==
  IF mant = 16777216 THEN FloatBytes(s, e + k + 127, 0)
  ELSE FloatBytes(s, e + k - 1 + 127, mant - 8388608)

PackOdd(s, m, e, k) == PackNormal(s, e, k, Mant24(m, k))

PackNormalized(s, n) ==
  IF n[2] = 0 THEN <<s * 128, 0, 0, 0>> ELSE PackOdd(s, n[2], n[3], BitLen(n[2]))

\* struct.pack('!f', x): the double x rounded to the nearest IEEE-754
\* binary32 (ties to even); x is zero or has a normal binary32 exponent
_pack_float(x) == PackNormalized(x.v[1], Normalize(x.v[1], x.v[2], x.v[3]))

FloatOf(n) == PyFloat(n[1], n[2], n[3])

UnpackFields(s, biased, frac) ==
  IF biased = 0 /\ frac = 0 THEN PyFloat(s, 0, 0)
  ELSE IF biased = 0 THEN FloatOf(Normalize(s, frac, -149))
  ELSE IF biased = 255 THEN PyFloat(s, frac, 1000)
  ELSE FloatOf(Normalize(s, 8388608 + frac, biased - 150))

\* struct.unpack('!f', b); infinities and NaNs get the exponent 1000
_unpack_float(b) ==
  UnpackFields(b[1] \div 128,
               ((b[1] % 128) * 2) + (b[2] \div 128),
               ((b[2] % 128) * 65536) + (b[3] * 256) + b[4])

\* the UTF-8 bytes of one code point
EncodeCp(c) ==
  IF c < 128 THEN <<c>>
  ELSE IF c < 2048 THEN <<192 + (c \div 64), 128 + (c % 64)>>
  ELSE IF c < 65536
    THEN <<224 + (c \div 4096), 128 + ((c \div 64) % 64), 128 + (c % 64)>>
  ELSE <<240 + (c \div 262144), 128 + ((c \div 4096) % 64),
         128 + ((c \div 64) % 64), 128 + (c % 64)>>

RECURSIVE EncodeUtf8(_)
\* x.encode('utf8', 'strict'): the bytes of the code points in order (the
\* text is split in halves, so that a text of thousands of code points
\* nests a few levels deep)
EncodeUtf8(cps) ==
  IF cps = <<>> THEN <<>>
  ELSE IF Len(cps) = 1 THEN EncodeCp(cps[1])
  ELSE EncodeUtf8(SubSeq(cps, 1, Len(cps) \div 2))
         \o EncodeUtf8(SubSeq(cps, (Len(cps) \div 2) + 1, Len(cps)))

\* the length of the UTF-8 sequence that the byte c starts, 0 if none
Utf8Len(c) ==
  IF c < 128 THEN 1
  ELSE IF c >= 194 /\ c < 224 THEN 2
  ELSE IF c >= 224 /\ c < 240 THEN 3
  ELSE IF c >= 240 /\ c < 245 THEN 4
  ELSE 0

IsCont(b, i) == i <= Len(b) /\ b[i] >= 128 /\ b[i] < 192

Utf8Good(b, i, n) == n > 0 /\ \A j \in 1..(n - 1) : IsCont(b, i + j)

Utf8Cp(b, i, n) ==
  IF n = 1 THEN b[i]
  ELSE IF n = 2 THEN (b[i] - 192) * 64 + (b[i + 1] - 128)
  ELSE IF n = 3 THEN (b[i] - 224) * 4096 + (b[i + 1] - 128) * 64 + (b[i + 2] - 128)
  ELSE (b[i] - 240) * 262144 + (b[i + 1] - 128) * 4096
       + (b[i + 2] - 128) * 64 + (b[i + 3] - 128)

\* no overlong form, no surrogate, no code point above 0x10FFFF
Utf8Strict(n, cp) ==
  /\ (n = 3 => cp >= 2048 /\ ~(cp >= 55296 /\ cp < 57344))
  /\ (n = 4 => cp >= 65536 /\ cp < 1114112)

DecodeError == [ok |-> FALSE, cps |-> <<>>]

DecodeCons(cp, rest) == IF rest.ok THEN [ok |-> TRUE, cps |-> <<cp>> \o rest.cps] ELSE DecodeError

RECURSIVE DecodeUtf8(_, _)
DecodeCp(b, i, n, cp) ==
  IF ~Utf8Strict(n, cp) THEN DecodeError ELSE DecodeCons(cp, DecodeUtf8(b, i + n))

DecodeSeq(b, i, n) ==
  IF ~Utf8Good(b, i, n) THEN DecodeError ELSE DecodeCp(b, i, n, Utf8Cp(b, i, n))

\* b[i..].decode('utf8', 'strict'): [ok, cps]; ok is FALSE where Python
\* raises UnicodeDecodeError
DecodeUtf8(b, i) ==
  IF i > Len(b) THEN [ok |-> TRUE, cps |-> <<>>] ELSE DecodeSeq(b, i, Utf8Len(b[i]))

_unpack_text_bytes(b) == DecodeUtf8(b, 1)

WithLength(encoded) == _pack_uint(Len(encoded)) \o encoded

_pack_text(cps) == WithLength(EncodeUtf8(cps))

\* _pack_value raises "Can't pack type" for a value of any other type
\* struct.pack('!i', x) raises struct.error unless -2^31 <= x < 2^31
FitsInt(x) == Len(x.v) = 1

CanPackValue(x) ==
  /\ x.t \in {"int", "float", "str", "bool"}
  /\ x.t = "int" => FitsInt(x)

_pack_value(x) ==
  IF x.t = "int" THEN _pack_int(TYPE_INT) \o _pack_int(x.v[1])
  ELSE IF x.t = "float" THEN _pack_int(TYPE_FLOAT) \o _pack_float(x)
  ELSE IF x.t = "str" THEN _pack_text(x.v)
  ELSE _pack_int(TYPE_BOOL) \o _pack_bool(x)

\* prepend len of resulting ans
WithLength4(ans) == _pack_uint(SIZE_UINT + Len(ans)) \o ans

RECURSIVE PackItems(_, _)
PackItems(props, i) ==
  IF i > Len(props) THEN <<>>
  ELSE _pack_text(props[i][1]) \o _pack_value(props[i][2]) \o PackItems(props, i + 1)

\* node is [props |-> dict]
_pack_node(node) == WithLength4(_pack_uint(Len(node.props)) \o PackItems(node.props, 1))

CanPack(node) == \A i \in DOMAIN node.props : CanPackValue(node.props[i][2])

(***************************************************************************)
(* The three memory-mapped files.  A byte or word outside the modelled     *)
(* part of a file was never written and reads as zero (_make_file and      *)
(* _ensure_length fill with zeros); the actions below never write there.   *)
(***************************************************************************)
Byte(P, a) == IF a \in DOMAIN P THEN P[a] ELSE 0
\* m[f:f+n] of the properties mmap
Bytes(P, f, n) == [i \in 1..n |-> Byte(P, f + i - 1)]
\* m[cur:cur+len(b)] = b
WriteBytes(P, cur, b) ==
  [a \in DOMAIN P |-> IF a >= cur /\ a < cur + Len(b) THEN b[a - cur + 1] ELSE P[a]]
\* the uint at byte address f of the node_ids or edges mmap
Word(M, f) == IF (f \div SIZE_UINT) \in DOMAIN M THEN M[f \div SIZE_UINT] ELSE 0

_node_id_address(nid) == nid * SIZE_NODE_ID
_edge_address(eid) == eid * SIZE_EDGE_ID

\* the reads return the pair <<value, address after it>>
_read_uint_from_node_ids(N, f) == <<Word(N, f), f + SIZE_UINT>>
_read_uint_from_edges(E, f) == <<Word(E, f), f + SIZE_UINT>>
_read_uint_from_properties(P, f) ==
  <<_unpack_uint(Bytes(P, f, SIZE_UINT)), f + SIZE_UINT>>
_read_int_from_properties(P, cur) ==
  <<_unpack_int(Bytes(P, cur, SIZE_INT)), cur + SIZE_INT>>
_read_bool_from_properties(P, f) ==
  <<_unpack_bool(Bytes(P, f, SIZE_BOOL)), f + SIZE_BOOL>>
_read_float_from_properties(P, cur) ==
  <<_unpack_float(Bytes(P, cur, SIZE_FLOAT)), cur + SIZE_FLOAT>>

\* the writes return the file after the write
_write_uint_to_properties(P, x, cur) == WriteBytes(P, cur, _pack_uint(x))
_write_uint_to_node_ids(N, x, cur) == [N EXCEPT ![cur \div SIZE_UINT] = x]
_write_uint_to_edges(E, x, cur) == [E EXCEPT ![cur \div SIZE_UINT] = x]
_write_packed_node_to_properties(P, packed, cur) == WriteBytes(P, cur, packed)
_write_node_to_properties(P, x, cur) == WriteBytes(P, cur, _pack_node(x))

_read_cur_node_id(N) == _read_uint_from_node_ids(N, 0)[1]
_read_cur_edge_id(E) == _read_uint_from_edges(E, 0)[1]
_read_cur_addr(P) == _read_uint_from_properties(P, 0)[1]
_write_cur_addr(P, x) == _write_uint_to_properties(P, x, 0)
_write_cur_node_id(N, x) == _write_uint_to_node_ids(N, x, 0)
_write_cur_edge_id(E, x) == _write_uint_to_edges(E, x, 0)

_node_address(N, nid) == _read_uint_from_node_ids(N, _node_id_address(nid))[1]
_read_first_edge_from_node(N, nid) ==
  _read_uint_from_node_ids(N, _node_id_address(nid) + SIZE_UINT)[1]
_read_first_edge_to_node(N, nid) ==
  _read_uint_from_node_ids(N, _node_id_address(nid) + 2 * SIZE_UINT)[1]
_set_first_edge_from(N, nid, edge) ==
  _write_uint_to_node_ids(N, edge, _node_id_address(nid) + SIZE_UINT)
_set_first_edge_to(N, nid, edge) ==
  _write_uint_to_node_ids(N, edge, _node_id_address(nid) + 2 * SIZE_UINT)

_prev_edge_from(E, edge) == _read_uint_from_edges(E, _edge_address(edge) + 2 * SIZE_UINT)[1]
_next_edge_from(E, edge) == _read_uint_from_edges(E, _edge_address(edge) + 3 * SIZE_UINT)[1]
_prev_edge_to(E, edge) == _read_uint_from_edges(E, _edge_address(edge) + 4 * SIZE_UINT)[1]
_next_edge_to(E, edge) == _read_uint_from_edges(E, _edge_address(edge) + 5 * SIZE_UINT)[1]
_set_prev_edge_from(E, prev, nxt) ==
  _write_uint_to_edges(E, prev, _edge_address(nxt) + 2 * SIZE_UINT)
_set_next_edge_from(E, prev, nxt) ==
  _write_uint_to_edges(E, nxt, _edge_address(prev) + 3 * SIZE_UINT)
_set_prev_edge_to(E, prev, nxt) ==
  _write_uint_to_edges(E, prev, _edge_address(nxt) + 4 * SIZE_UINT)
_set_next_edge_to(E, prev, nxt) ==
  _write_uint_to_edges(E, nxt, _edge_address(prev) + 5 * SIZE_UINT)

(***************************************************************************)
(* Decoding a property record.  A decoder returns [ok, v, cur]; ok is      *)
(* FALSE where the code raises (bad UTF-8, unknown val_desc) and where the *)
(* bytes are no record the model decodes (more than MaxParseProps          *)
(* properties or a text of more than MaxParseText bytes).                  *)
(***************************************************************************)
Undecoded == [ok |-> FALSE, v |-> PyNone, cur |-> 0]

Decoded(v, cur) == [ok |-> TRUE, v |-> v, cur |-> cur]

TextResult(txt, t) == IF txt.ok THEN Decoded(PyStr(txt.cps), t) ELSE Undecoded

\* the text in m[bytes_f:bytes_f + length]
ReadTextBytes(P, bytes_f, length) ==
  IF length > MaxParseText THEN Undecoded
  ELSE TextResult(_unpack_text_bytes(Bytes(P, bytes_f, length)), bytes_f + length)

_read_text_from_properties(P, f) ==
  ReadTextBytes(P, f + SIZE_UINT, _read_uint_from_properties(P, f)[1])

ReadValueOfDesc(P, cur, val_desc) ==
  IF val_desc >= 0 THEN ReadTextBytes(P, cur, val_desc)
  ELSE IF val_desc = TYPE_BOOL
    THEN Decoded(_read_bool_from_properties(P, cur)[1], cur + SIZE_BOOL)
  ELSE IF val_desc = TYPE_INT
    THEN Decoded(PyInt(_read_int_from_properties(P, cur)[1]), cur + SIZE_INT)
  ELSE IF val_desc = TYPE_UINT
    THEN Decoded(PyInt(_read_uint_from_properties(P, cur)[1]), cur + SIZE_UINT)
  ELSE IF val_desc = TYPE_FLOAT
    THEN Decoded(_read_float_from_properties(P, cur)[1], cur + SIZE_FLOAT)
  ELSE Undecoded

_read_value_from_properties(P, cur) ==
  ReadValueOfDesc(P, cur + SIZE_INT, _read_int_from_properties(P, cur)[1])

PropsError == [ok |-> FALSE, props |-> <<>>]

RECURSIVE ReadProps(_, _, _, _)
ReadPropsValue(P, n, acc, k, v) ==
  IF ~v.ok THEN PropsError ELSE ReadProps(P, v.cur, n - 1, DictSet(acc, k.v.v, v.v))

ReadPropsKey(P, n, acc, k) ==
  IF ~k.ok THEN PropsError
  ELSE ReadPropsValue(P, n, acc, k, _read_value_from_properties(P, k.cur))

\* the loop of _read_node_from_properties: n more properties from cur on
ReadProps(P, cur, n, acc) ==
  IF n = 0 THEN [ok |-> TRUE, props |-> acc]
  ELSE ReadPropsKey(P, n, acc, _read_text_from_properties(P, cur))

ReadCounted(P, cur, num_props) ==
  IF num_props > MaxParseProps THEN PropsError ELSE ReadProps(P, cur, num_props, <<>>)

NodeRecord(naddr, rec_len, r) ==
  [ok |-> r.ok, record_address |-> naddr, record_length |-> rec_len, props |-> r.props]

\* [ok, record_address, record_length, props]
_read_node_from_properties(P, naddr) ==
  NodeRecord(naddr,
             _read_uint_from_properties(P, naddr)[1],
             ReadCounted(P, naddr + 2 * SIZE_UINT,
                         _read_uint_from_properties(P, naddr + SIZE_UINT)[1]))

EdgeWord(E, eaddr, i) == _read_uint_from_edges(E, eaddr + i * SIZE_UINT)[1]

EdgeRecord(E, eaddr, node) ==
  [ok |-> node.ok, fnid |-> EdgeWord(E, eaddr, 0), tnid |-> EdgeWord(E, eaddr, 1),
   prev_1 |-> EdgeWord(E, eaddr, 2), next_1 |-> EdgeWord(E, eaddr, 3),
   prev_2 |-> EdgeWord(E, eaddr, 4), next_2 |-> EdgeWord(E, eaddr, 5),
   props |-> node.props]

\* [ok, fnid, tnid, prev_1, next_1, prev_2, next_2, props]
_read_edge(P, E, eaddr) ==
  EdgeRecord(E, eaddr, _read_node_from_properties(P, EdgeWord(E, eaddr, 6)))

(***************************************************************************)
(* The read operations.  A result is [kind, ...] with kind "None" for      *)
(* Python's None, "Node" or "Edge" for a decoded record and "Undecoded"    *)
(* where the decoder is not ok.                                            *)
(***************************************************************************)
None == [kind |-> "None"]

\* a tuple compared with an int: Python's == is False, != is True
TupleEqInt(tup, n) == FALSE

NodeResult(ans) ==
  IF ~ans.ok THEN [kind |-> "Undecoded"]
  ELSE [kind |-> "Node", record_address |-> ans.record_address,
        record_length |-> ans.record_length, props |-> ans.props]

GetNodeAt(P, node_addr) ==
  IF node_addr = 0 THEN None ELSE NodeResult(_read_node_from_properties(P, node_addr))

get_node(P, N, nid) == GetNodeAt(P, _node_address(N, nid))

EdgeResult(ans) ==
  IF ~ans.ok THEN [kind |-> "Undecoded"]
  ELSE [kind |-> "Edge", fnid |-> ans.fnid, tnid |-> ans.tnid,
        prev_1 |-> ans.prev_1, next_1 |-> ans.next_1,
        prev_2 |-> ans.prev_2, next_2 |-> ans.next_2, props |-> ans.props]

get_edge(P, E, eid) ==
  IF TupleEqInt(_read_uint_from_edges(E, _edge_address(eid)), NODE_ID_NONE) THEN None
  ELSE EdgeResult(_read_edge(P, E, _edge_address(eid)))

RECURSIVE ScanNodeIds(_, _, _)
ScanNodeIds(N, nid, cur_nid) ==
  IF ~(nid < cur_nid) THEN <<>>
  ELSE (IF ~TupleEqInt(_read_uint_from_node_ids(N, _node_id_address(nid)),
                       PROPERTY_ADDRESS_NONE)
        THEN <<nid>> ELSE <<>>) \o ScanNodeIds(N, nid + 1, cur_nid)

\* list(get_node_ids())
get_node_ids(N) == ScanNodeIds(N, 1, _read_cur_node_id(N))

ScanCons(eid, edge, rest) ==
  IF ~edge.ok \/ ~rest.ok THEN [ok |-> FALSE, ids |-> <<>>]
  ELSE [ok |-> TRUE,
        ids |-> (IF edge.fnid # EDGE_ID_NONE THEN <<eid>> ELSE <<>>) \o rest.ids]

RECURSIVE ScanEdgeIds(_, _, _, _)
ScanEdgeIds(P, E, eid, cur_eid) ==
  IF ~(eid < cur_eid) THEN [ok |-> TRUE, ids |-> <<>>]
  ELSE ScanCons(eid, _read_edge(P, E, _edge_address(eid)),
                ScanEdgeIds(P, E, eid + 1, cur_eid))

\* list(get_edge_ids()): [ok, ids], ok FALSE where decoding a slot's
\* property record is not ok
get_edge_ids(P, E) == ScanEdgeIds(P, E, 1, _read_cur_edge_id(E))

\* an adjacency walk is cut after this many edges: a walk that long has
\* come back to an edge it has yielded and never ends
WalkFuel == MaxEdgeId + 2

RECURSIVE WalkFrom(_, _, _)
WalkFrom(E, eid, fuel) ==
  IF eid = EDGE_ID_NONE \/ fuel = 0 THEN <<>>
  ELSE <<eid>> \o WalkFrom(E, _next_edge_from(E, eid), fuel - 1)

RECURSIVE WalkTo(_, _, _)
WalkTo(E, eid, fuel) ==
  IF eid = EDGE_ID_NONE \/ fuel = 0 THEN <<>>
  ELSE <<eid>> \o WalkTo(E, _next_edge_to(E, eid), fuel - 1)

\* list(edges_from(nid)) and list(edges_to(nid))
edges_from(N, E, nid) == WalkFrom(E, _read_first_edge_from_node(N, nid), WalkFuel)
edges_to(N, E, nid) == WalkTo(E, _read_first_edge_to_node(N, nid), WalkFuel)

(***************************************************************************)
(* The write operations, as functions of the files.                        *)
(***************************************************************************)
_write_property_addr_of_node_id(N, nid, addr) ==
  [i \in DOMAIN N |->
     IF i = _node_id_address(nid) \div SIZE_UINT THEN addr
     ELSE IF i = (_node_id_address(nid) \div SIZE_UINT) + 1 THEN EDGE_ID_NONE
     ELSE IF i = (_node_id_address(nid) \div SIZE_UINT) + 2 THEN EDGE_ID_NONE
     ELSE N[i]]

\* mutant of _pack_edge_id: the two endpoints change places
_pack_edge_id_swapped(N, fr, to, prev1, next1, prev2, next2, edg) ==
  <<to, fr, prev1, next1, prev2, next2, _node_address(N, edg)>>

\* the seven words of an edge slot
_pack_edge_id(N, fr, to, prev1, next1, prev2, next2, edg) ==
  <<fr, to, prev1, next1, prev2, next2, _node_address(N, edg)>>

\* m[cur:t] = packed in the edges file, cur the byte address of a slot
WriteSlot(E, cur, packed) ==
  [i \in DOMAIN E |->
     IF i >= cur \div SIZE_UINT /\ i < (cur \div SIZE_UINT) + Len(packed)
     THEN packed[i - (cur \div SIZE_UINT) + 1] ELSE E[i]]

\* the edges file after the splice of cur before the heads first_from and
\* first_to and the write of its slot
SpliceEdges(E, N, fr, to, edg, cur, first_from, first_to) ==
  WriteSlot(
    IF first_to = EDGE_ID_NONE
    THEN (IF first_from = EDGE_ID_NONE THEN E ELSE _set_prev_edge_from(E, cur, first_from))
    ELSE _set_prev_edge_to(
           IF first_from = EDGE_ID_NONE THEN E ELSE _set_prev_edge_from(E, cur, first_from),
           cur, first_to),
    _edge_address(cur),
    _pack_edge_id(N, fr, to, EDGE_ID_NONE, first_from, EDGE_ID_NONE, first_to, edg))

\* mutant of _write_edge_to_edges: the slot is written as if both lists
\* were empty, the heads before it are not linked behind the new edge
_write_edge_to_edges_unlinked(N, E, fr, to, edg, cur) ==
  [N |-> _set_first_edge_to(_set_first_edge_from(N, fr, cur), to, cur),
   E |-> SpliceEdges(E, _set_first_edge_to(_set_first_edge_from(N, fr, cur), to, cur),
                     fr, to, edg, cur, EDGE_ID_NONE, EDGE_ID_NONE)]

\* [N, E]: the node_ids and edges files after _write_edge_to_edges; the
\* to-head is read after the from-head is set, the slot is packed last
_write_edge_to_edges(N, E, fr, to, edg, cur) ==
  [N |-> _set_first_edge_to(_set_first_edge_from(N, fr, cur), to, cur),
   E |-> SpliceEdges(E, _set_first_edge_to(_set_first_edge_from(N, fr, cur), to, cur),
                     fr, to, edg, cur,
                     _read_first_edge_from_node(N, fr),
                     _read_first_edge_to_node(_set_first_edge_from(N, fr, cur), to))]

CreateNodeAt(P, N, node, cur_id, cur_addr) ==
  [P |-> _write_cur_addr(_write_node_to_properties(P, node, cur_addr),
                         cur_addr + Len(_pack_node(node))),
   N |-> _write_property_addr_of_node_id(_write_cur_node_id(N, cur_id + 1),
                                         cur_id, cur_addr),
   ret |-> cur_id]

\* [P, N, ret]
create_node(P, N, node) == CreateNodeAt(P, N, node, _read_cur_node_id(N), _read_cur_addr(P))

UpdateRecord(P, old_addr, packed, node, cur_addr) ==
  IF ~node.ok THEN [P |-> P, raised |-> TRUE]
  ELSE IF Len(packed) = node.record_length
    THEN [P |-> _write_packed_node_to_properties(P, packed, old_addr), raised |-> FALSE]
  ELSE [P |-> _write_cur_addr(_write_packed_node_to_properties(P, packed, cur_addr),
                              cur_addr + Len(packed)),
        raised |-> FALSE]

UpdateAt(P, old_addr, packed) ==
  UpdateRecord(P, old_addr, packed, _read_node_from_properties(P, old_addr),
               _read_cur_addr(P))

\* [P, raised]; raised where reading the old record is not ok
update_node(P, N, nid, n) == UpdateAt(P, _node_address(N, nid), _pack_node(n))

delete_node(N, nid) == _write_property_addr_of_node_id(N, nid, PROPERTY_ADDRESS_NONE)

CreateEdgeAt(w, cur_id) ==
  [N |-> w.N, E |-> _write_cur_edge_id(w.E, cur_id + 1), ret |-> cur_id]

\* [N, E, ret]
create_edge(N, E, from_nid, to_nid, edge_nid) ==
  CreateEdgeAt(_write_edge_to_edges(N, E, from_nid, to_nid, edge_nid, _read_cur_edge_id(E)),
               _read_cur_edge_id(E))

\* mutant of UnlinkFrom: an edge that is not the head is cut out of the
\* next pointers only, the prev pointer of its successor is left
UnlinkFrom_oneway(N, E, eid, fr, nxt, prev) ==
  IF _read_first_edge_from_node(N, fr) = eid
  THEN [N |-> _set_first_edge_from(N, fr, nxt),
        E |-> _set_prev_edge_from(E, EDGE_ID_NONE, nxt)]
  ELSE [N |-> N, E |-> _set_next_edge_from(E, prev, nxt)]

\* [N, E] after the first if/else of remove_edge
UnlinkFrom(N, E, eid, fr, nxt, prev) ==
  IF _read_first_edge_from_node(N, fr) = eid
  THEN [N |-> _set_first_edge_from(N, fr, nxt),
        E |-> _set_prev_edge_from(E, EDGE_ID_NONE, nxt)]
  ELSE [N |-> N,
        E |-> _set_next_edge_from(_set_prev_edge_from(E, prev, nxt), prev, nxt)]

\* mutant of UnlinkTo: the head of the to-list is set whether or not the
\* edge is the head
UnlinkTo_rehead(N, E, eid, to, nxt, prev) ==
  [N |-> _set_first_edge_to(N, to, nxt),
   E |-> _set_prev_edge_to(E, EDGE_ID_NONE, nxt)]

\* [N, E] after the second if/else of remove_edge
UnlinkTo(N, E, eid, to, nxt, prev) ==
  IF _read_first_edge_to_node(N, to) = eid
  THEN [N |-> _set_first_edge_to(N, to, nxt),
        E |-> _set_prev_edge_to(E, EDGE_ID_NONE, nxt)]
  ELSE [N |-> N,
        E |-> _set_next_edge_to(_set_prev_edge_to(E, prev, nxt), prev, nxt)]

RemoveSecond(w, eid, to) ==
  UnlinkTo(w.N, w.E, eid, to, _next_edge_to(w.E, eid), _prev_edge_to(w.E, eid))

\* mutant of RemoveLast: the slot of the edge created last is given back
RemoveLast_reusing(w, eid) ==
  [N |-> w.N,
   E |-> IF eid + 1 = _read_cur_edge_id(w.E)
         THEN _write_cur_edge_id(
                _write_uint_to_edges(w.E, NODE_ID_NONE, _edge_address(eid)), eid)
         ELSE _write_uint_to_edges(w.E, NODE_ID_NONE, _edge_address(eid))]

\* [N, E] after the last write of remove_edge
RemoveLast(w, eid) ==
  [N |-> w.N, E |-> _write_uint_to_edges(w.E, NODE_ID_NONE, _edge_address(eid))]

\* [N, E]
remove_edge(N, E, eid) ==
  RemoveLast(
    RemoveSecond(
      UnlinkFrom(N, E, eid, EdgeWord(E, _edge_address(eid), 0),
                 _next_edge_from(E, eid), _prev_edge_from(E, eid)),
      eid, EdgeWord(E, _edge_address(eid), 1)),
    eid)

(***************************************************************************)
(* The graph engine (src/graph_engine/engine.py): a layer of pure reads    *)
(* and of writes over the storage operations.  An engine node is           *)
(* [kind |-> "Node", node_id, props], an engine edge is [id, props, tnid,  *)
(* fnid, to_node].  A predicate (desirable_props) is a sequence of         *)
(* <<kind, operand>> pairs in the order of the dict's items, the kind a    *)
(* string and the operand a Python value of type "dict" (v a dict of the   *)
(* model) or "list" (v a sequence of keys); None and {} are both <<>>:    *)
(* the code only ever tests them with "not".                               *)
(***************************************************************************)
PyDict(d) == [t |-> "dict", v |-> d]
PyList(l) == [t |-> "list", v |-> l]

\* bool(x)
PyTruthy(x) ==
  IF x.t = "NoneType" THEN FALSE
  ELSE IF x.t \in {"int", "bool"} THEN x.v[1] # 0
  ELSE IF x.t = "float" THEN x.v[2] # 0
  ELSE x.v # <<>>

\* d.get(k, None)
DictGetOrNone(d, k) == IF DictHas(d, k) THEN DictGet(d, k) ELSE PyNone

RECURSIVE LexLess(_, _)
\* x < y on two texts
LexLess(x, y) ==
  IF y = <<>> THEN FALSE
  ELSE IF x = <<>> THEN TRUE
  ELSE IF Head(x) # Head(y) THEN Head(x) < Head(y)
  ELSE LexLess(Tail(x), Tail(y))

\* x < y is defined on two texts and on two numbers; the numbers of the
\* predicates are ints and bools
CanCompare(x, y) ==
  \/ x.t = "str" /\ y.t = "str"
  \/ x.t \in {"int", "bool"} /\ y.t \in {"int", "bool"}

PyLess(x, y) == IF x.t = "str" THEN LexLess(x.v, y.v) ELSE x.v[1] < y.v[1]

\* not_equal_props read as "p[k] != v or k absent": an absent key passes
MapItemTest_absent(kind, props, k, v) ==
  IF ~DictHas(props, k) THEN (IF kind = "not_equal_props" THEN "True" ELSE "False")
  ELSE IF kind = "equal_props"
    THEN (IF PyEq(DictGet(props, k), v) THEN "True" ELSE "False")
  ELSE IF kind = "not_equal_props"
    THEN (IF PyEq(DictGet(props, k), v) THEN "False" ELSE "True")
  ELSE IF ~CanCompare(DictGet(props, k), v) THEN "Raise"
  ELSE IF kind = "less_props"
    THEN (IF ~PyLess(DictGet(props, k), v) THEN "False" ELSE "True")
  ELSE IF kind = "less_or_equal_props"
    THEN (IF PyLess(v, DictGet(props, k)) THEN "False" ELSE "True")
  ELSE (IF ~PyLess(v, DictGet(props, k)) THEN "False" ELSE "True")

\* the test of one item of the operand of a map kind: "False" where
\* check_properties returns False, "True" where the loop goes on, "Raise"
\* where the comparison raises TypeError
MapItemTest(kind, props, k, v) ==
  IF ~DictHas(props, k) THEN "False"
  ELSE IF kind = "equal_props"
    THEN (IF PyEq(DictGet(props, k), v) THEN "True" ELSE "False")
  ELSE IF kind = "not_equal_props"
    THEN (IF PyEq(DictGet(props, k), v) THEN "False" ELSE "True")
  ELSE IF ~CanCompare(DictGet(props, k), v) THEN "Raise"
  ELSE IF kind = "less_props"
    THEN (IF ~PyLess(DictGet(props, k), v) THEN "False" ELSE "True")
  ELSE IF kind = "less_or_equal_props"
    THEN (IF PyLess(v, DictGet(props, k)) THEN "False" ELSE "True")
  ELSE (IF ~PyLess(v, DictGet(props, k)) THEN "False" ELSE "True")

RECURSIVE MapItems(_, _, _, _)
MapItemsNext(kind, props, items, i, res) ==
  IF res # "True" THEN res ELSE MapItems(kind, props, items, i + 1)

\* the inner loop over the items of the operand of a map kind
MapItems(kind, props, items, i) ==
  IF i > Len(items) THEN "True"
  ELSE MapItemsNext(kind, props, items, i,
                    MapItemTest(kind, props, items[i][1], items[i][2]))

MapKinds == {"less_props", "less_or_equal_props", "greater_props",
             "equal_props", "not_equal_props"}

\* the body of the loop of check_properties for one item of the predicate;
\* "value is not Dict" is true of every value
KindTest(props, kind, value) ==
  IF kind = "negative_props"
    THEN (IF value.t # "list" THEN "Raise"
          ELSE IF \E i \in DOMAIN value.v : DictHas(props, value.v[i]) THEN "False"
          ELSE "True")
  ELSE IF kind = "greater_or_equal_props" THEN "Raise"
  ELSE IF kind \in MapKinds
    THEN (IF value.t # "dict" THEN "Raise" ELSE MapItems(kind, props, value.v, 1))
  ELSE "True"

RECURSIVE CheckKinds(_, _, _)
CheckKindsNext(props, desirable_props, i, res) ==
  IF res # "True" THEN res ELSE CheckKinds(props, desirable_props, i + 1)

CheckKinds(props, desirable_props, i) ==
  IF i > Len(desirable_props) THEN "True"
  ELSE CheckKindsNext(props, desirable_props, i,
                      KindTest(props, desirable_props[i][1], desirable_props[i][2]))

\* the empty predicate tested first: it passes on an empty property map too
check_properties_vacuous(props, desirable_props) ==
  IF desirable_props = <<>> THEN "True"
  ELSE IF props = <<>> THEN "False"
  ELSE CheckKinds(props, desirable_props, 1)

\* "True", "False" or "Raise"
check_properties(props, desirable_props) ==
  IF props = <<>> THEN "False"
  ELSE IF desirable_props = <<>> THEN "True"
  ELSE CheckKinds(props, desirable_props, 1)

EngineNode(node_id, node) ==
  IF node.kind = "Node"
  THEN [kind |-> "Node", node_id |-> node_id, props |-> node.props]
  ELSE node

\* GraphEngine.get_node: None, or the node of the storage with its id
GraphEngine_get_node(P, N, node_id) == EngineNode(node_id, get_node(P, N, node_id))

\* mutant of check_property_in_node: an id without a record passes
check_property_in_node_dead(P, N, node_id, properties_, node) ==
  IF node.kind = "Node" THEN check_properties(node.props, properties_)
  ELSE IF GraphEngine_get_node(P, N, node_id).kind # "Node" THEN "True"
  ELSE check_properties(GraphEngine_get_node(P, N, node_id).props, properties_)

\* "True", "False" or "Raise" for the node returned, None returned and an
\* exception; node is the node the caller passes
check_property_in_node(P, N, node_id, properties_, node) ==
  IF node.kind = "Node" THEN check_properties(node.props, properties_)
  ELSE IF GraphEngine_get_node(P, N, node_id).kind # "Node" THEN "False"
  ELSE check_properties(GraphEngine_get_node(P, N, node_id).props, properties_)

EdgeDict(P, N, edge_id, edge) ==
  IF edge.kind # "Edge" THEN [kind |-> "Raise"]
  ELSE [kind |-> "Edge", id |-> edge_id, props |-> edge.props, tnid |-> edge.tnid,
        fnid |-> edge.fnid, to_node |-> GraphEngine_get_node(P, N, edge.tnid)]

\* GraphEngine.get_edge(edge_id, False, True); kind "Raise" where the
\* storage does not return a record
GraphEngine_get_edge(P, N, E, edge_id) == EdgeDict(P, N, edge_id, get_edge(P, E, edge_id))

EdgeIf(edge, res) ==
  IF res = "True" THEN edge ELSE IF res = "False" THEN None ELSE [kind |-> "Raise"]

EdgeChecked(edge, properties_) ==
  IF edge.kind = "Raise" THEN edge
  ELSE EdgeIf(edge, check_properties(edge.props, properties_))

\* the edge, None or [kind |-> "Raise"]
check_property_in_edge(P, N, E, edge_id, properties_) ==
  EdgeChecked(GraphEngine_get_edge(P, N, E, edge_id), properties_)

\* the loop of get_edges_from over the results of its calls, in list order
CollectCons(res, rest) ==
  [raised |-> rest.raised,
   edges |-> (IF res.kind = "Edge" THEN <<res>> ELSE <<>>) \o rest.edges]

RECURSIVE CollectEdges(_, _)
CollectEdges(results, i) ==
  IF i > Len(results) THEN [raised |-> FALSE, edges |-> <<>>]
  ELSE IF results[i].kind = "Raise" THEN [raised |-> TRUE, edges |-> <<>>]
  ELSE CollectCons(results[i], CollectEdges(results, i + 1))

EdgesOfIds(P, N, E, edges_ids, properties_) ==
  CollectEdges([i \in DOMAIN edges_ids |->
                  IF properties_ = <<>> THEN GraphEngine_get_edge(P, N, E, edges_ids[i])
                  ELSE check_property_in_edge(P, N, E, edges_ids[i], properties_)], 1)

\* [raised, edges]
get_edges_from(P, N, E, node_id, properties_) ==
  IF GraphEngine_get_node(P, N, node_id).kind # "Node"
  THEN [raised |-> FALSE, edges |-> <<>>]
  ELSE EdgesOfIds(P, N, E, edges_from(N, E, node_id), properties_)

\* [raised, edges]: the loop of get_edges_to calls get_edge and
\* check_property_in_edge with from_node False and to_node True, as that of
\* get_edges_from does
get_edges_to(P, N, E, node_id, properties_) ==
  IF GraphEngine_get_node(P, N, node_id).kind # "Node"
  THEN [raised |-> FALSE, edges |-> <<>>]
  ELSE EdgesOfIds(P, N, E, edges_to(N, E, node_id), properties_)

\* the loops of get_nodes_by_properties and get_edges_by_properties (parallel
\* False) over <<id, outcome of the check>> in id order: [raised, ids], the
\* ids of the records appended to the list returned
FoundCons(id, res, rest) ==
  [raised |-> rest.raised, ids |-> (IF res = "True" THEN <<id>> ELSE <<>>) \o rest.ids]

RECURSIVE CollectFound(_, _)
CollectFound(results, i) ==
  IF i > Len(results) THEN [raised |-> FALSE, ids |-> <<>>]
  ELSE IF results[i][2] = "Raise" THEN [raised |-> TRUE, ids |-> <<>>]
  ELSE FoundCons(results[i][1], results[i][2], CollectFound(results, i + 1))

NodesOfIds(P, N, all_nodes, properties_) ==
  CollectFound([i \in DOMAIN all_nodes |->
                  <<all_nodes[i], check_property_in_node(P, N, all_nodes[i], properties_, None)>>],
               1)

\* GraphEngine.get_nodes_by_properties(properties): [raised, ids]
get_nodes_by_properties(P, N, properties_) == NodesOfIds(P, N, get_node_ids(N), properties_)

\* "True", "False" or "Raise" for the edge, None and an exception
EdgeOutcome(edge) ==
  IF edge.kind = "Edge" THEN "True" ELSE IF edge.kind = "Raise" THEN "Raise" ELSE "False"

EdgesByIds(P, N, E, all_edges, properties_) ==
  IF ~all_edges.ok THEN [raised |-> TRUE, ids |-> <<>>]
  ELSE CollectFound([i \in DOMAIN all_edges.ids |->
                       <<all_edges.ids[i],
                         EdgeOutcome(check_property_in_edge(P, N, E, all_edges.ids[i],
                                                            properties_))>>], 1)

\* GraphEngine.get_edges_by_properties(properties): [raised, ids]
get_edges_by_properties(P, N, E, properties_) ==
  EdgesByIds(P, N, E, get_edge_ids(P, E), properties_)

\* 'remote_node' and 'remote_node_id'
KeyRemoteNode == <<114, 101, 109, 111, 116, 101, 95, 110, 111, 100, 101>>
KeyRemoteNodeId == KeyRemoteNode \o <<95, 105, 100>>

\* visited_nodes is a function from the query ids that have an entry to the
\* set of the node ids that the entry maps to True
\* if query_id not in visited_nodes: visited_nodes[query_id] = {}
EnsureEntry(V, query_id) == IF query_id \in DOMAIN V THEN V ELSE V @@ (query_id :> {})

\* a visited set shared by the query ids: the node is marked in every entry
MarkVisited_shared(V, query_id, node_id) == [k \in DOMAIN V |-> V[k] \cup {node_id}]

\* visited_nodes[query_id][node_id] = True
MarkVisited(V, query_id, node_id) == [V EXCEPT ![query_id] = @ \cup {node_id}]

\* a release that leaves the entry in place
clear_visited_nodes_keep(V, query_id) == V

\* clear_visited_nodes(query_id)
clear_visited_nodes(V, query_id) ==
  IF query_id \in DOMAIN V THEN [k \in DOMAIN V \ {query_id} |-> V[k]] ELSE V

\* new_node['props'].get('remote_node', None) and
\* new_node['props'].get('remote_node_id', None)
IsPlaceholder(node) ==
  /\ PyTruthy(DictGetOrNone(node.props, KeyRemoteNode))
  /\ PyTruthy(DictGetOrNone(node.props, KeyRemoteNodeId))

\* the element neighbours starts with: the id of the start node, not a node
BareId(node_id) == [kind |-> "Id", node_id |-> node_id]

\* the for-loop body after the target was marked; res is the outcome of
\* check_property_in_node ("True" where node_properties is not given)
VisitTarget(st, edge, current_hops, res) ==
  IF res = "Raise" THEN [st EXCEPT !.raised = TRUE]
  ELSE IF res = "False" THEN st
  ELSE IF IsPlaceholder(edge.to_node)
    THEN [st EXCEPT !.remote_nodes =
            Append(@, <<DictGet(edge.to_node.props, KeyRemoteNodeId), current_hops - 1>>)]
  ELSE [st EXCEPT !.neighbours = Append(@, edge.to_node),
                  !.queue = Append(@, <<edge.tnid, current_hops - 1>>)]

\* the for-loop body for one edge, without the test of the visited entry
EdgeStep_revisit(P, N, st, edge, query_id, node_properties, current_hops) ==
  IF edge.to_node.kind # "Node" THEN st
  ELSE VisitTarget([st EXCEPT !.V = MarkVisited(@, query_id, edge.tnid)], edge, current_hops,
                   IF node_properties = <<>> THEN "True"
                   ELSE check_property_in_node(P, N, edge.tnid, node_properties, edge.to_node))

\* the for-loop body for one edge
EdgeStep(P, N, st, edge, query_id, node_properties, current_hops) ==
  IF edge.to_node.kind # "Node" THEN st
  ELSE IF edge.tnid \in st.V[query_id] THEN st
  ELSE VisitTarget([st EXCEPT !.V = MarkVisited(@, query_id, edge.tnid)], edge, current_hops,
                   IF node_properties = <<>> THEN "True"
                   ELSE check_property_in_node(P, N, edge.tnid, node_properties, edge.to_node))

RECURSIVE ForEdges(_, _, _, _, _, _, _, _)
ForEdges(P, N, st, edges_, i, query_id, node_properties, current_hops) ==
  IF i > Len(edges_) \/ st.raised THEN st
  ELSE ForEdges(P, N, EdgeStep(P, N, st, edges_[i], query_id, node_properties, current_hops),
                edges_, i + 1, query_id, node_properties, current_hops)

RECURSIVE WhileQueue(_, _, _, _, _, _, _, _)
\* one turn of the while loop after queue.pop() returned an entry with
\* current_hops > 0; got is what get_edges_from(node_id, ...) returned, for
\* the node_id the call started at
Expand(P, N, E, st, got, current_hops, node_id, query_id, node_properties, edge_properties) ==
  IF got.raised THEN [st EXCEPT !.raised = TRUE]
  ELSE WhileQueue(P, N, E,
                  ForEdges(P, N, st, got.edges, 1, query_id, node_properties, current_hops),
                  node_id, query_id, node_properties, edge_properties)

\* the while loop: queue.pop() takes the entry appended last
WhileQueue(P, N, E, st, node_id, query_id, node_properties, edge_properties) ==
  IF st.queue = <<>> \/ st.raised THEN st
  ELSE IF st.queue[Len(st.queue)][2] <= 0
    THEN [st EXCEPT !.queue = SubSeq(@, 1, Len(@) - 1)]
  ELSE Expand(P, N, E, [st EXCEPT !.queue = SubSeq(@, 1, Len(@) - 1)],
              get_edges_from(P, N, E, node_id, edge_properties),
              st.queue[Len(st.queue)][2], node_id, query_id, node_properties,
              edge_properties)

\* [V, neighbours, remote_nodes, queue, raised]: visited_nodes after the
\* call, the two lists returned, the queue when the loop ended and whether
\* the call raised
find_neighbours(P, N, E, V, node_id, hops, query_id, node_properties, edge_properties) ==
  IF hops <= 0
  THEN [V |-> V, neighbours |-> <<>>, remote_nodes |-> <<>>, queue |-> <<>>,
        raised |-> FALSE]
  ELSE WhileQueue(P, N, E,
                  [V |-> MarkVisited(EnsureEntry(V, query_id), query_id, node_id),
                   neighbours |-> <<BareId(node_id)>>, remote_nodes |-> <<>>,
                   queue |-> << <<node_id, hops>> >>, raised |-> FALSE],
                  node_id, query_id, node_properties, edge_properties)

\* GraphEngine.create_node: [P, N, ret]
GraphEngine_create_node(P, N, properties_) == create_node(P, N, [props |-> properties_])

\* {**node_properties, **{'remote_node_id': to_node_remote, 'remote_node': True}}
PlaceholderProps(node_properties, to_node_remote) ==
  DictSet(DictSet(node_properties, KeyRemoteNodeId, PyStr(to_node_remote)),
          KeyRemoteNode, PyBool(TRUE))

\* [P, N, E, ret, raised] of the files after storage.create_edge: c is what
\* storage.create_node returned for the properties of the edge
EdgeOfProps(c, e) == [P |-> c.P, N |-> e.N, E |-> e.E, ret |-> e.ret, raised |-> FALSE]

EdgeAfterProps(c, E, from_node, to_node) ==
  EdgeOfProps(c, create_edge(c.N, E, from_node, to_node, c.ret))

\* storage.create_edge(from_node, to_node, storage.create_node({'props': properties}))
\* on the files w holds
CreateEdgeWithProps(w, E, from_node, to_node, properties_) ==
  EdgeAfterProps(create_node(w.P, w.N, [props |-> properties_]), E, from_node, to_node)

\* GraphEngine.create_edge: [P, N, E, ret, raised]; ret 0 is None; to_node 0
\* and to_node_remote <<>> are the values "if" takes for false;
\* node_properties is a Python value, a dict or None
GraphEngine_create_edge(P, N, E, from_node, properties_, to_node, to_node_remote, node_properties) ==
  IF GraphEngine_get_node(P, N, from_node).kind # "Node"
  THEN [P |-> P, N |-> N, E |-> E, ret |-> 0, raised |-> FALSE]
  ELSE IF to_node_remote # <<>>
    THEN (IF node_properties.t # "dict"
          THEN [P |-> P, N |-> N, E |-> E, ret |-> 0, raised |-> TRUE]
          ELSE CreateEdgeWithProps(
                 GraphEngine_create_node(P, N, PlaceholderProps(node_properties.v, to_node_remote)),
                 E, from_node,
                 GraphEngine_create_node(P, N, PlaceholderProps(node_properties.v, to_node_remote)).ret,
                 properties_))
  ELSE IF to_node # 0 /\ GraphEngine_get_node(P, N, to_node).kind = "Node"
    THEN CreateEdgeWithProps([P |-> P, N |-> N], E, from_node, to_node, properties_)
  ELSE [P |-> P, N |-> N, E |-> E, ret |-> 0, raised |-> FALSE]

\* the request threads of the engine (the server runs threaded), and the
\* query id each of them works for
Threads == {1, 2}
QueryOf(t) == IF t = 1 THEN "q1" ELSE "q2"
\* a thread that is in no call
IdleFrame == [pc |-> "idle"]
IdleFrames == [t \in Threads |-> IdleFrame]

\* the DBMS is in no call; Vv is the visited_nodes of the second worker
IdleDbms ==
  [pc |-> "idle", query_id |-> "", nodes_to_process |-> <<>>, neighbours |-> <<>>,
   requests |-> <<>>, conts |-> {}, Vv |-> <<>>]

\* no call of the engine has been recorded
NoCall == [op |-> "none"]

\* FILE_SIZE, the size _make_file gives a file, scaled down
FileSize == 2
\* a file as _make_file and mmap.mmap leave it: FileSize zero bytes
MadeFile(file) ==
  [file |-> file, mmap |-> [i \in 1..FileSize |-> 0], written |-> <<>>, growths |-> 0]

\* the locals of a find_neighbours call when it is entered: V0 is the entry
\* of its query id at that moment (as a dict of that one key, empty when
\* the query id has no entry)
CallFrame(V, node_id, hops, query_id, node_properties, edge_properties) ==
  [pc |-> IF hops <= 0 THEN "fn_return" ELSE "fn_check",
   node_id |-> node_id, hops |-> hops, query_id |-> query_id,
   node_properties |-> node_properties, edge_properties |-> edge_properties,
   V0 |-> [k \in DOMAIN V \cap {query_id} |-> V[k]],
   st |-> [neighbours |-> <<>>, remote_nodes |-> <<>>, queue |-> <<>>, raised |-> FALSE],
   edges_ |-> <<>>, i |-> 0, current_hops |-> 0]

\* visited_nodes[query_id] = {}
SetEntry(V, query_id) ==
  [k \in DOMAIN V \cup {query_id} |-> IF k = query_id THEN {} ELSE V[k]]

\* lines 329-331: the locals before the while loop
BeforeLoop(f) ==
  [f EXCEPT !.pc = "fn_while",
            !.st = [neighbours |-> <<BareId(f.node_id)>>, remote_nodes |-> <<>>,
                    queue |-> << <<f.node_id, f.hops>> >>, raised |-> FALSE]]

\* the head of the while loop with the queue entry popped: got is what
\* get_edges_from returned for the node the call started at
AfterPop(f, got) ==
  IF f.st.queue[Len(f.st.queue)][2] <= 0
  THEN [f EXCEPT !.pc = "fn_return", !.st.queue = SubSeq(@, 1, Len(@) - 1)]
  ELSE IF got.raised
    THEN [f EXCEPT !.pc = "fn_return", !.st.queue = SubSeq(@, 1, Len(@) - 1),
                   !.st.raised = TRUE]
  ELSE [f EXCEPT !.pc = "fn_for", !.st.queue = SubSeq(@, 1, Len(@) - 1),
                 !.edges_ = got.edges, !.i = 1,
                 !.current_hops = f.st.queue[Len(f.st.queue)][2]]

\* the head of the for loop: the next edge, up to the test of the visited
\* entry (line 347)
ForHead(f, V) ==
  IF f.i > Len(f.edges_) THEN [f EXCEPT !.pc = "fn_while"]
  ELSE IF f.edges_[f.i].to_node.kind # "Node" THEN [f EXCEPT !.i = @ + 1]
  ELSE IF f.query_id \notin DOMAIN V THEN [f EXCEPT !.pc = "fn_return", !.st.raised = TRUE]
  ELSE IF f.edges_[f.i].tnid \in V[f.query_id] THEN [f EXCEPT !.i = @ + 1]
  ELSE [f EXCEPT !.pc = "fn_set"]

\* lines 349-358 for the edge at hand, after its target was marked
AfterSet(P, N, f) ==
  [f EXCEPT !.pc = "fn_for", !.i = @ + 1,
            !.st = VisitTarget(f.st, f.edges_[f.i], f.current_hops,
                               IF f.node_properties = <<>> THEN "True"
                               ELSE check_property_in_node(P, N, f.edges_[f.i].tnid,
                                                           f.node_properties,
                                                           f.edges_[f.i].to_node))]
\* an exception ends the call
Raised(f) == IF f.st.raised THEN [f EXCEPT !.pc = "fn_return"] ELSE f

(***************************************************************************)
(* Construction.  The files did not exist: _make_file fills them with      *)
(* zeros and, when new is true, the three counters are set to first_id.    *)
(***************************************************************************)
first_id == 1

ZeroProperties == [a \in 0..(PropBytes - 1) |-> 0]
ZeroNodeIds == [i \in 0..(3 * (MaxNodeId + 1) - 1) |-> 0]
ZeroEdges == [i \in 0..(7 * (MaxEdgeId + 1) - 1) |-> 0]

\* [P, N, E] after GraphStorage(new, db_name) on files that did not exist
__init__(nw) ==
  [P |-> IF nw THEN _write_cur_addr(ZeroProperties, first_id) ELSE ZeroProperties,
   N |-> IF nw THEN _write_cur_node_id(ZeroNodeIds, first_id) ELSE ZeroNodeIds,
   E |-> IF nw THEN _write_cur_edge_id(ZeroEdges, first_id) ELSE ZeroEdges]

InitWith(nw) ==
  /\ new = nw
  /\ properties = __init__(nw).P
  /\ node_ids = __init__(nw).N
  /\ edges = __init__(nw).E
  /\ node_rets = <<>>
  /\ edge_rets = <<>>
  /\ deleted = {}
  /\ removed = {}
  /\ visited_nodes = <<>>
  /\ frames = IdleFrames
  /\ released = {}
  /\ dbms = IdleDbms
  /\ call = NoCall
  /\ file_mmap = MadeFile("properties")

\* the store of the storage tests: GraphStorage(True, 'test')
Init == InitWith(TRUE)

\* the store of the graph engine: GraphStorage(db_name=name), new = False
InitOpen == InitWith(FALSE)

\* the store of the storage tests with LongBytes bytes of the properties
\* file kept
InitLong ==
  /\ new = TRUE
  /\ properties = _write_cur_addr([a \in 0..(LongBytes - 1) |-> 0], first_id)
  /\ node_ids = __init__(TRUE).N
  /\ edges = __init__(TRUE).E
  /\ node_rets = <<>>
  /\ edge_rets = <<>>
  /\ deleted = {}
  /\ removed = {}
  /\ visited_nodes = <<>>
  /\ frames = IdleFrames
  /\ released = {}
  /\ dbms = IdleDbms
  /\ call = NoCall
  /\ file_mmap = MadeFile("properties")

(***************************************************************************)
(* Inputs.                                                                 *)
(***************************************************************************)
KeyA == <<97>>
\* {'a': 1}, {'a': 2}: both pack to 21 bytes
Pool == { << <<KeyA, PyInt(1)>> >>, << <<KeyA, PyInt(2)>> >> }
\* {}, {'a': 1}, {'a': 2}, {'a': 'z'}: packed lengths 8, 21, 21, 18
NodePool == Pool \cup { <<>>, << <<KeyA, PyStr(<<122>>)>> >> }

\* property maps of every type _pack_value packs: {}, ints of both signs and
\* the two ends of the 32-bit range, floats that binary32 holds exactly
\* (1.25, -0.5, 3 * 2^20), both booleans, texts (empty, 'z', U+00E9,
\* U+20AC 'z'), a key of two bytes and a map of two keys
KeyB == <<98>>
CodecPool ==
  { <<>>,
    << <<KeyA, PyInt(1)>> >>,
    << <<KeyA, PyInt(0 - 2)>> >>,
    << <<KeyA, PyInt(2147483647)>> >>,
    << <<KeyA, PyInt(0 - 2147483647 - 1)>> >>,
    << <<KeyA, PyFloat(0, 5, 0 - 2)>> >>,
    << <<KeyA, PyFloat(1, 1, 0 - 1)>> >>,
    << <<KeyA, PyFloat(0, 3, 20)>> >>,
    << <<KeyA, PyBool(TRUE)>> >>,
    << <<KeyA, PyBool(FALSE)>> >>,
    << <<KeyA, PyStr(<<>>)>> >>,
    << <<KeyA, PyStr(<<122>>)>> >>,
    << <<KeyA, PyStr(<<233>>)>> >>,
    << <<KeyA, PyStr(<<8364, 122>>)>> >>,
    << <<<<233>>, PyBool(TRUE)>> >>,
    << <<KeyA, PyInt(1)>>, <<KeyB, PyStr(<<122>>)>> >> }

\* {'a': 'x' * 4343}: packs to 4360 bytes, which is 256 * 17 + 8, the
\* record_length that is read at address 1 once two empty maps (8 bytes
\* each) were created and the free address 17 was written over bytes 0..3
LongMap == << <<KeyA, PyStr([i \in 1..(256 * (first_id + 8 + 8) + 8 - 17) |-> 120])>> >>
LongPool == { <<>>, << <<KeyA, PyInt(1)>> >>, LongMap }

Range(f) == {f[i] : i \in DOMAIN f}
\* the ids that create_node and create_edge have returned
ReturnedNodes == Range(node_rets)
ReturnedEdges == Range(edge_rets)
IsLive(nid) == get_node(properties, node_ids, nid).kind = "Node"

(***************************************************************************)
(* Actions: one call of a storage operation each.                          *)
(***************************************************************************)
CreateNode(props) ==
  LET node == [props |-> props]
      r == create_node(properties, node_ids, node)
  IN  /\ CanPack(node)
      /\ Len(node_rets) < MaxNodeId
      /\ _read_cur_node_id(node_ids) <= MaxNodeId
      /\ _read_cur_addr(properties) + Len(_pack_node(node)) <= PropBytes
      /\ properties' = r.P
      /\ node_ids' = r.N
      /\ node_rets' = Append(node_rets, r.ret)
      /\ UNCHANGED <<new, edges, edge_rets, deleted, removed, visited_nodes, frames, released, dbms, call, file_mmap>>

\* the callers of update_node pass the id of a node they have created and
\* not deleted
UpdateNode(nid, props) ==
  LET n == [props |-> props]
      r == update_node(properties, node_ids, nid, n)
  IN  /\ CanPack(n)
      /\ _node_address(node_ids, nid) # PROPERTY_ADDRESS_NONE
      \* an appended record lies in the modelled part of the properties file
      /\ \/ Len(_pack_node(n)) =
              _read_uint_from_properties(properties, _node_address(node_ids, nid))[1]
         \/ _read_cur_addr(properties) + Len(_pack_node(n)) <= PropBytes
      /\ properties' = r.P
      /\ UNCHANGED <<new, node_ids, edges, node_rets, edge_rets, deleted, removed, visited_nodes, frames, released, dbms, call, file_mmap>>

DeleteNode(nid) ==
  /\ node_ids' = delete_node(node_ids, nid)
  /\ deleted' = deleted \cup {nid}
  /\ UNCHANGED <<new, properties, edges, node_rets, edge_rets, removed, visited_nodes, frames, released, dbms, call, file_mmap>>

\* the caller (GraphEngine.create_edge, the storage tests) passes nodes
\* that exist
CreateEdge(from_nid, to_nid, edge_nid) ==
  LET r == create_edge(node_ids, edges, from_nid, to_nid, edge_nid)
  IN  /\ IsLive(from_nid) /\ IsLive(to_nid) /\ IsLive(edge_nid)
      /\ Len(edge_rets) < MaxEdgeId
      /\ _read_cur_edge_id(edges) <= MaxEdgeId
      /\ node_ids' = r.N
      /\ edges' = r.E
      /\ edge_rets' = Append(edge_rets, r.ret)
      /\ UNCHANGED <<new, properties, node_rets, deleted, removed, visited_nodes, frames, released, dbms, call, file_mmap>>

RemoveEdge(eid) ==
  LET r == remove_edge(node_ids, edges, eid)
  IN  /\ Word(edges, _edge_address(eid)) <= MaxNodeId
      /\ Word(edges, _edge_address(eid) + SIZE_UINT) <= MaxNodeId
      /\ node_ids' = r.N
      /\ edges' = r.E
      /\ removed' = removed \cup {eid}
      /\ UNCHANGED <<new, properties, node_rets, edge_rets, deleted, visited_nodes, frames, released, dbms, call, file_mmap>>

NodeNext(pool) ==
  \/ \E props \in pool : CreateNode(props)
  \/ \E nid \in ReturnedNodes, props \in pool : UpdateNode(nid, props)
  \/ \E nid \in ReturnedNodes : DeleteNode(nid)

EdgeNext ==
  \/ \E f \in ReturnedNodes, t \in ReturnedNodes, p \in ReturnedNodes : CreateEdge(f, t, p)
  \/ \E eid \in ReturnedEdges : RemoveEdge(eid)

Next == NodeNext(Pool) \/ EdgeNext

\* all five operations on a store created with new = True
Spec == Init /\ [][Next]_vars

\* all five operations on a store opened with new = False
SpecOpen == InitOpen /\ [][NodeNext(NodePool) \/ EdgeNext]_vars

\* the node operations alone, over property maps of several packed lengths
SpecNodes == Init /\ [][NodeNext(NodePool)]_vars

\* the node operations with a record of several thousand bytes among the
\* inputs
SpecLong == InitLong /\ [][NodeNext(LongPool)]_vars

\* create_node alone, over property maps of every packed type
SpecCodec == Init /\ [][\E props \in CodecPool : CreateNode(props)]_vars

(***************************************************************************)
(* The graph engine on a store whose files exist (they were created with   *)
(* new = True) and that GraphEngine(name) opens.                           *)
(***************************************************************************)
\* the highest node id whose slot lies in the modelled part of the node_ids
\* file: every edge of the engine takes a node for its properties and, with
\* to_node_remote, a node for the placeholder
MaxEngineNodeId == MaxEngineNodes + 2 * MaxEdgeId

InitEngine ==
  /\ new = FALSE
  /\ properties = _write_cur_addr([a \in 0..(EngineBytes - 1) |-> 0], first_id)
  /\ node_ids = _write_cur_node_id([i \in 0..(3 * (MaxEngineNodeId + 1) - 1) |-> 0], first_id)
  /\ edges = __init__(TRUE).E
  /\ node_rets = <<>>
  /\ edge_rets = <<>>
  /\ deleted = {}
  /\ removed = {}
  /\ visited_nodes = <<>>
  /\ frames = IdleFrames
  /\ released = {}
  /\ dbms = IdleDbms
  /\ call = NoCall
  /\ file_mmap = MadeFile("properties")

\* 'v$1', 'v$2', ...: the remote node the i-th edge may point to, a node of
\* the worker 'v', one id per placeholder
RemoteId(i) == <<118, 36, 48 + (i % 10)>>
\* {'a': 1}: the properties of the nodes; {'w': 1}: those of the edges
NodeProps == << <<KeyA, PyInt(1)>> >>
KeyW == <<119>>
EdgeProps == << <<KeyW, PyInt(1)>> >>
\* the predicates of the queries: none and {'equal_props': {'a': 1}} for
\* nodes (a placeholder has no 'a'), none and {'equal_props': {'w': 1}} for
\* edges
NodePreds == { <<>>, << <<"equal_props", PyDict(NodeProps)>> >> }
EdgePreds == { <<>>, << <<"equal_props", PyDict(EdgeProps)>> >> }
\* the query id of the calls, and a query id that no call uses
QueryIds == {"q1"}
FreshQueryId == "q2"
Hops == 0..MaxHops

\* writes come before the traversals: no entry of visited_nodes exists and
\* neither a request thread nor the DBMS has entered a call
NoTraversal == DOMAIN visited_nodes = {} /\ frames = IdleFrames /\ dbms = IdleDbms

\* GraphEngine.create_node(props)
EngineCreateNode(props) ==
  LET r == GraphEngine_create_node(properties, node_ids, props)
  IN  /\ NoTraversal
      /\ Len(node_rets) < MaxEngineNodes
      /\ _read_cur_node_id(node_ids) <= MaxEngineNodeId
      /\ _read_cur_addr(properties) + Len(_pack_node([props |-> props])) <= EngineBytes
      /\ properties' = r.P
      /\ node_ids' = r.N
      /\ node_rets' = Append(node_rets, r.ret)
      /\ UNCHANGED <<new, edges, edge_rets, deleted, removed, visited_nodes, frames, released, dbms, call, file_mmap>>

\* GraphEngine.create_edge(from_node, EdgeProps, to_node, to_node_remote, {})
\* with one of to_node and to_node_remote given
EngineCreateEdge(from_node, to_node, to_node_remote) ==
  LET r == GraphEngine_create_edge(properties, node_ids, edges, from_node, EdgeProps,
                                   to_node, to_node_remote, PyDict(<<>>))
  IN  /\ NoTraversal
      /\ (to_node = 0) # (to_node_remote = <<>>)
      /\ Len(edge_rets) < MaxEdgeId
      /\ _read_cur_edge_id(edges) <= MaxEdgeId
      /\ _read_cur_node_id(node_ids) + 1 <= MaxEngineNodeId
      /\ _read_cur_addr(properties)
           + Len(_pack_node([props |-> PlaceholderProps(<<>>, RemoteId(1))]))
           + Len(_pack_node([props |-> EdgeProps])) <= EngineBytes
      /\ ~r.raised /\ r.ret # 0
      /\ properties' = r.P
      /\ node_ids' = r.N
      /\ edges' = r.E
      /\ edge_rets' = Append(edge_rets, r.ret)
      /\ UNCHANGED <<new, node_rets, deleted, removed, visited_nodes, frames, released, dbms, call, file_mmap>>

\* GraphEngine.find_neighbours(node_id, hops, query_id, node_properties,
\* edge_properties) as one call
FindNeighbours(node_id, hops, query_id, node_properties, edge_properties) ==
  LET r == find_neighbours(properties, node_ids, edges, visited_nodes, node_id, hops,
                           query_id, node_properties, edge_properties)
  IN  /\ frames = IdleFrames
      /\ ~r.raised
      /\ visited_nodes' = r.V
      /\ released' = IF hops > 0 THEN released \ {query_id} ELSE released
      /\ UNCHANGED <<new, properties, node_ids, edges, node_rets, edge_rets, deleted,
                     removed, frames, dbms, call, file_mmap>>

\* clear_visited_nodes(query_id)
ClearVisitedNodes(query_id) ==
  /\ frames = IdleFrames
  /\ visited_nodes' = clear_visited_nodes(visited_nodes, query_id)
  /\ released' = IF query_id \in DOMAIN visited_nodes THEN released \cup {query_id}
                 ELSE released
  /\ UNCHANGED <<new, properties, node_ids, edges, node_rets, edge_rets, deleted,
                 removed, frames, dbms, call, file_mmap>>

EngineNext ==
  \/ EngineCreateNode(NodeProps)
  \/ \E f \in ReturnedNodes, t \in ReturnedNodes : EngineCreateEdge(f, t, <<>>)
  \/ \E f \in ReturnedNodes : EngineCreateEdge(f, 0, RemoteId(Len(edge_rets) + 1))
  \/ \E n \in ReturnedNodes, h \in Hops, q \in QueryIds, np \in NodePreds, ep \in EdgePreds :
       FindNeighbours(n, h, q, np, ep)
  \/ \E q \in QueryIds : ClearVisitedNodes(q)

\* the engine: nodes and edges are created, then traversals and releases
SpecEngine == InitEngine /\ [][EngineNext]_vars

(***************************************************************************)
(* Concurrent requests.  The server handles each request in a thread of    *)
(* its own; the threads share visited_nodes and read the files, which no   *)
(* request of this specification writes.  A step of a thread is the code   *)
(* between two accesses to visited_nodes.                                  *)
(***************************************************************************)
\* the stores the requests run on: two nodes and up to MaxThreadEdges edges,
\* each from one of the nodes to one of them or (0) to a remote node; the
\* first edge leaves node 1 (the stores whose first edge leaves node 2 are
\* these with the two nodes exchanged)
MaxThreadEdges == 2
ThreadEnds == { <<1, 1>>, <<1, 2>>, <<2, 1>>, <<2, 2>>, <<1, 0>>, <<2, 0>> }
RECURSIVE EdgeLists(_)
EdgeLists(n) ==
  IF n = 0 THEN { <<>> }
  ELSE EdgeLists(n - 1)
         \cup { Append(es, e) : es \in { l \in EdgeLists(n - 1) : Len(l) = n - 1 },
                                e \in { x \in ThreadEnds : n > 1 \/ x[1] = 1 } }

\* GraphEngine.create_edge for the i-th edge of a list, on the files w holds
WithEdge(w, end, i) ==
  GraphEngine_create_edge(w.P, w.N, w.E, end[1], EdgeProps, end[2],
                          IF end[2] = 0 THEN RemoteId(i) ELSE <<>>, PyDict(<<>>))
RECURSIVE WithEdges(_, _, _)
WithEdges(w, es, i) ==
  IF i > Len(es) THEN w ELSE WithEdges(WithEdge(w, es[i], i), es, i + 1)
\* the files after two create_node calls
TwoNodes(c) == GraphEngine_create_node(c.P, c.N, NodeProps)
EmptyFiles ==
  [P |-> _write_cur_addr([a \in 0..(EngineBytes - 1) |-> 0], first_id),
   N |-> _write_cur_node_id([i \in 0..(3 * (MaxEngineNodeId + 1) - 1) |-> 0], first_id)]
ThreadStore(es) ==
  WithEdges([P |-> TwoNodes(TwoNodes(EmptyFiles)).P, N |-> TwoNodes(TwoNodes(EmptyFiles)).N,
             E |-> __init__(TRUE).E],
            es, 1)

InitThreads ==
  \E es \in EdgeLists(MaxThreadEdges) :
    /\ new = FALSE
    /\ properties = ThreadStore(es).P
    /\ node_ids = ThreadStore(es).N
    /\ edges = ThreadStore(es).E
    /\ node_rets = <<first_id, first_id + 1>>
    /\ edge_rets = [i \in 1..Len(es) |-> i]
    /\ deleted = {}
    /\ removed = {}
    /\ visited_nodes = <<>>
    /\ frames = IdleFrames
    /\ released = {}
    /\ dbms = IdleDbms
    /\ call = NoCall
    /\ file_mmap = MadeFile("properties")

\* thread t moves to frame f and visited_nodes to V
ThreadStep(t, f, V) ==
  /\ frames' = [frames EXCEPT ![t] = f]
  /\ visited_nodes' = V
  /\ UNCHANGED <<new, properties, node_ids, edges, node_rets, edge_rets, deleted, removed,
                 dbms, call, file_mmap>>

\* the request arrives: find_neighbours is entered (lines 323-324)
FnCall(t, node_id, hops, node_properties, edge_properties) ==
  /\ frames[t].pc = "idle"
  /\ ThreadStep(t, CallFrame(visited_nodes, node_id, hops, QueryOf(t), node_properties,
                             edge_properties), visited_nodes)
  /\ released' = IF hops > 0 THEN released \ {QueryOf(t)} ELSE released

\* line 325: if query_id not in visited_nodes
FnCheck(t) ==
  /\ frames[t].pc = "fn_check"
  /\ ThreadStep(t, [frames[t] EXCEPT !.pc = IF frames[t].query_id \in DOMAIN visited_nodes
                                            THEN "fn_mark" ELSE "fn_init"],
                visited_nodes)
  /\ UNCHANGED released

\* line 326: visited_nodes[query_id] = {}
FnInit(t) ==
  /\ frames[t].pc = "fn_init"
  /\ ThreadStep(t, [frames[t] EXCEPT !.pc = "fn_mark"],
                SetEntry(visited_nodes, frames[t].query_id))
  /\ UNCHANGED released

\* lines 328-331: the start node is marked; KeyError without the entry
FnMark(t) ==
  /\ frames[t].pc = "fn_mark"
  /\ IF frames[t].query_id \in DOMAIN visited_nodes
     THEN ThreadStep(t, BeforeLoop(frames[t]),
                     MarkVisited(visited_nodes, frames[t].query_id, frames[t].node_id))
     ELSE ThreadStep(t, [frames[t] EXCEPT !.pc = "fn_return", !.st.raised = TRUE],
                     visited_nodes)
  /\ UNCHANGED released

\* lines 333-341: the head of the while loop; the edges are read from the files
FnWhile(t) ==
  /\ frames[t].pc = "fn_while"
  /\ IF frames[t].st.queue = <<>>
     THEN ThreadStep(t, [frames[t] EXCEPT !.pc = "fn_return"], visited_nodes)
     ELSE ThreadStep(t, AfterPop(frames[t],
                                 get_edges_from(properties, node_ids, edges, frames[t].node_id,
                                                frames[t].edge_properties)),
                     visited_nodes)
  /\ UNCHANGED released

\* lines 342-347: the next edge and the test of the visited entry
FnFor(t) ==
  /\ frames[t].pc = "fn_for"
  /\ ThreadStep(t, ForHead(frames[t], visited_nodes), visited_nodes)
  /\ UNCHANGED released

\* lines 348-358: the target is marked, then tested and appended
FnSet(t) ==
  /\ frames[t].pc = "fn_set"
  /\ IF frames[t].query_id \in DOMAIN visited_nodes
     THEN ThreadStep(t, Raised(AfterSet(properties, node_ids, frames[t])),
                     MarkVisited(visited_nodes, frames[t].query_id,
                                 frames[t].edges_[frames[t].i].tnid))
     ELSE ThreadStep(t, [frames[t] EXCEPT !.pc = "fn_return", !.st.raised = TRUE],
                     visited_nodes)
  /\ UNCHANGED released

\* line 360: the response is sent
FnReturn(t) ==
  /\ frames[t].pc = "fn_return"
  /\ ThreadStep(t, IdleFrame, visited_nodes)
  /\ UNCHANGED released

\* clear_visited_nodes, line 87: if query_id in visited_nodes
ClCheck(t) ==
  /\ frames[t].pc = "idle"
  /\ ThreadStep(t, IF QueryOf(t) \in DOMAIN visited_nodes
                   THEN [pc |-> "cl_pop", query_id |-> QueryOf(t)] ELSE IdleFrame,
                visited_nodes)
  /\ UNCHANGED released

\* clear_visited_nodes, line 88: visited_nodes.pop(query_id)
ClPop(t) ==
  /\ frames[t].pc = "cl_pop"
  /\ ThreadStep(t, IdleFrame, clear_visited_nodes(visited_nodes, frames[t].query_id))
  /\ released' = released \cup {frames[t].query_id}

\* the starts, hops and predicates of the concurrent requests
ThreadHops == 0..MaxHops
ThreadNodePreds == { <<>> }
ThreadEdgePreds == { <<>> }

ThreadNext ==
  \E t \in Threads :
    \/ \E n \in ReturnedNodes, h \in ThreadHops, np \in ThreadNodePreds,
          ep \in ThreadEdgePreds : FnCall(t, n, h, np, ep)
    \/ FnCheck(t)
    \/ FnInit(t)
    \/ FnMark(t)
    \/ FnWhile(t)
    \/ FnFor(t)
    \/ FnSet(t)
    \/ FnReturn(t)
    \/ ClCheck(t)
    \/ ClPop(t)

\* two request threads, each with a query id of its own, on a store that
\* no request writes
SpecThreads == InitThreads /\ [][ThreadNext]_vars

(***************************************************************************)
(* The DBMS.  Its workers are 'w', the engine whose files and whose        *)
(* visited_nodes the variables hold, and 'v', an engine over a store of    *)
(* two nodes without edges.                                                *)
(***************************************************************************)
SUCCESS_CODE == 200
BAD_REQUEST_CODE == 400
WorkerW == <<119>>
WorkerV == <<118>>
\* self.workers
Workers == <<WorkerW, WorkerV>>
\* the files of worker 'v'
RemoteFiles ==
  [P |-> TwoNodes(TwoNodes(EmptyFiles)).P, N |-> TwoNodes(TwoNodes(EmptyFiles)).N,
   E |-> __init__(TRUE).E]

\* str(n) of a node id
StrOfInt(n) == IF n < 10 THEN <<48 + n>> ELSE <<48 + (n \div 10), 48 + (n % 10)>>
\* f'{worker}${node_id}'
CompositeId(worker, node_id) == worker \o <<36>> \o StrOfInt(node_id)
\* the place of the first '$' of a text, Len + 1 without one
DollarAt(s) ==
  CHOOSE i \in 1..(Len(s) + 1) :
    /\ i = Len(s) + 1 \/ s[i] = 36
    /\ \A j \in 1..(i - 1) : s[j] # 36
\* node_id_str.split('$')[0] and [1]
SplitWorker(s) == SubSeq(s, 1, DollarAt(s) - 1)
SplitNode(s) == SplitWorker(SubSeq(s, DollarAt(s) + 1, Len(s)))
\* flask's type=int of a text of digits; 0 where int() fails, which the
\* handlers answer as they answer a node id of 0
RECURSIVE IntOfDigits(_, _)
IntOfDigits(s, acc) ==
  IF s = <<>> THEN acc ELSE IntOfDigits(Tail(s), 10 * acc + (Head(s) - 48))
IntOfStr(s) ==
  IF s # <<>> /\ \A i \in DOMAIN s : s[i] \in 48..57 THEN IntOfDigits(s, 0) ELSE 0

\* the response of /findNeighbours: [status, V, neighbours, remote_nodes];
\* r is what GraphEngine.find_neighbours came to; a remote node id is a
\* str and arrives as its text
ApiResponse(r) ==
  IF r.raised
  THEN [status |-> 500, V |-> r.V, neighbours |-> <<>>, remote_nodes |-> <<>>]
  ELSE [status |-> SUCCESS_CODE, V |-> r.V, neighbours |-> r.neighbours,
        remote_nodes |-> [i \in DOMAIN r.remote_nodes |->
                            <<r.remote_nodes[i][1].v, r.remote_nodes[i][2]>>]]
\* /findNeighbours of the worker with the files F and the visited_nodes V;
\* node_props and edge_props are not sent
api_find_neighbours(F, V, node_id, hops, query_id) ==
  IF node_id = 0 \/ query_id = ""
  THEN [status |-> BAD_REQUEST_CODE, V |-> V, neighbours |-> <<>>, remote_nodes |-> <<>>]
  ELSE ApiResponse(find_neighbours(F.P, F.N, F.E, V, node_id, hops, query_id, <<>>, <<>>))

\* neighbour['node_id'] = f'{worker}${neighbour["node_id"]}'
Relabel(worker, node) == [node EXCEPT !.node_id = CompositeId(worker, @)]
\* what find_neighbours_in_worker makes of a response: None, the response
\* with the ids of its neighbours relabelled, or [kind |-> "Raise"] for the
\* TypeError of the item assignment on a neighbour that is an int
InWorkerResult(worker, resp) ==
  IF resp.status # SUCCESS_CODE THEN None
  ELSE IF \E i \in DOMAIN resp.neighbours : resp.neighbours[i].kind = "Id"
    THEN [kind |-> "Raise"]
  ELSE [kind |-> "Res",
        neighbours |-> [i \in DOMAIN resp.neighbours |-> Relabel(worker, resp.neighbours[i])],
        remote_nodes |-> resp.remote_nodes]

\* the round so far: S holds the visited_nodes of the two workers, the
\* requests sent, the continuations answered, the results gathered and
\* whether a result raised; item is the entry of nodes_to_process asked for
AfterRequest(S, item, worker, resp, res) ==
  [V |-> [S.V EXCEPT ![worker] = resp.V],
   requests |-> Append(S.requests, item),
   conts |-> S.conts \cup { resp.remote_nodes[i] : i \in DOMAIN resp.remote_nodes },
   results |-> IF res.kind = "Res" THEN Append(S.results, res) ELSE S.results,
   raised |-> S.raised \/ res.kind = "Raise"]
RequestTo(S, item, worker, resp) ==
  AfterRequest(S, item, worker, resp, InWorkerResult(worker, resp))
\* find_neighbours_in_worker(item[1], item[2]); Fw are the files of 'w'
InWorker(S, item, worker, Fw, query_id) ==
  IF worker \notin DOMAIN S.V THEN [S EXCEPT !.raised = TRUE]
  ELSE RequestTo(S, item, worker,
                 api_find_neighbours(IF worker = WorkerW THEN Fw ELSE RemoteFiles,
                                     S.V[worker], IntOfStr(SplitNode(item[1])), item[2],
                                     query_id))
\* execute_function_in_parallel over nodes_to_process: every request is
\* sent, the results are gathered in the order of the list
RECURSIVE Requests(_, _, _, _, _)
Requests(S, items, i, Fw, query_id) ==
  IF i > Len(items) THEN S
  ELSE Requests(InWorker(S, items[i], SplitWorker(items[i][1]), Fw, query_id),
                items, i + 1, Fw, query_id)

\* DBMS.get_node: None, or the node with its id relabelled; V is only there
\* to tell the workers
DbmsNode(worker, node) == IF node.kind = "Node" THEN Relabel(worker, node) ELSE None
DBMS_get_node(Fw, node_id_str) ==
  IF SplitWorker(node_id_str) \notin {WorkerW, WorkerV} THEN None
  ELSE IF IntOfStr(SplitNode(node_id_str)) = 0 THEN None
  ELSE IF SplitWorker(node_id_str) = WorkerW
    THEN DbmsNode(WorkerW, GraphEngine_get_node(Fw.P, Fw.N, IntOfStr(SplitNode(node_id_str))))
  ELSE DbmsNode(WorkerV, GraphEngine_get_node(RemoteFiles.P, RemoteFiles.N,
                                               IntOfStr(SplitNode(node_id_str))))

\* the loop over the results of a round: M is [neighbours, nodes_to_process]
RECURSIVE MergeNeighbours(_, _, _)
MergeNeighbours(M, new_neighbours, i) ==
  IF i > Len(new_neighbours) THEN M
  ELSE MergeNeighbours([M EXCEPT !.neighbours =
                          DictSet(@, new_neighbours[i].node_id, new_neighbours[i])],
                       new_neighbours, i + 1)
RECURSIVE MergeRemote(_, _, _, _)
MergeRemote(M, remote_nodes, i, Fw) ==
  IF i > Len(remote_nodes) THEN M
  ELSE IF DictHas(M.neighbours, remote_nodes[i][1])
    THEN MergeRemote(M, remote_nodes, i + 1, Fw)
  ELSE MergeRemote([neighbours |-> DictSet(M.neighbours, remote_nodes[i][1],
                                            DBMS_get_node(Fw, remote_nodes[i][1])),
                    nodes_to_process |-> Append(M.nodes_to_process, remote_nodes[i])],
                   remote_nodes, i + 1, Fw)
RECURSIVE MergeResults(_, _, _, _)
MergeResults(M, results, i, Fw) ==
  IF i > Len(results) THEN M
  ELSE MergeResults(MergeRemote(MergeNeighbours(M, results[i].neighbours, 1),
                                results[i].remote_nodes, 1, Fw),
                    results, i + 1, Fw)

\* one turn of the while loop of DBMS.find_neighbours: d is dbms, S the
\* round after its requests and M the merge of its results
AfterRound(d, S, M) ==
  IF S.raised
  THEN [d EXCEPT !.pc = "raised", !.requests = S.requests, !.conts = S.conts,
                 !.Vv = S.V[WorkerV]]
  ELSE [d EXCEPT !.nodes_to_process = M.nodes_to_process, !.neighbours = M.neighbours,
                 !.requests = S.requests, !.conts = S.conts, !.Vv = S.V[WorkerV]]
RoundOf(d, S, Fw) ==
  AfterRound(d, S, IF S.raised THEN <<>>
                   ELSE MergeResults([neighbours |-> d.neighbours, nodes_to_process |-> <<>>],
                                     S.results, 1, Fw))
Round(d, Vw, Fw) ==
  RoundOf(d, Requests([V |-> (WorkerW :> Vw) @@ (WorkerV :> d.Vv), requests |-> d.requests,
                       conts |-> d.conts, results |-> <<>>, raised |-> FALSE],
                      d.nodes_to_process, 1, Fw, d.query_id),
          Fw)
\* visited_nodes of 'w' after the requests of the round
RoundVw(d, Vw, Fw) ==
  Requests([V |-> (WorkerW :> Vw) @@ (WorkerV :> d.Vv), requests |-> d.requests,
            conts |-> d.conts, results |-> <<>>, raised |-> FALSE],
           d.nodes_to_process, 1, Fw, d.query_id).V[WorkerW]

\* DBMS.find_neighbours(node_id_str, hops) is entered; the query id is drawn
DbmsCall(node_id_str, hops, query_id) ==
  /\ dbms.pc = "idle"
  /\ frames = IdleFrames
  /\ dbms' = [pc |-> "loop", query_id |-> query_id,
              nodes_to_process |-> << <<node_id_str, hops>> >>, neighbours |-> <<>>,
              requests |-> <<>>, conts |-> {}, Vv |-> dbms.Vv]
  /\ UNCHANGED <<new, properties, node_ids, edges, node_rets, edge_rets, deleted, removed,
                 visited_nodes, frames, released, call, file_mmap>>

\* one turn of the while loop: the requests of the round and the merge
DbmsRound ==
  /\ dbms.pc = "loop"
  /\ dbms.nodes_to_process # <<>>
  /\ dbms' = Round(dbms, visited_nodes, [P |-> properties, N |-> node_ids, E |-> edges])
  /\ visited_nodes' = RoundVw(dbms, visited_nodes,
                              [P |-> properties, N |-> node_ids, E |-> edges])
  /\ released' = IF dbms.query_id \in DOMAIN visited_nodes'
                 THEN released \ {dbms.query_id} ELSE released
  /\ UNCHANGED <<new, properties, node_ids, edges, node_rets, edge_rets, deleted, removed,
                 frames, call, file_mmap>>

\* the loop has ended: clear_history on every worker, then the return
DbmsReturn ==
  /\ dbms.pc = "loop"
  /\ dbms.nodes_to_process = <<>>
  /\ dbms' = [dbms EXCEPT !.pc = "done", !.Vv = clear_visited_nodes(@, dbms.query_id)]
  /\ visited_nodes' = clear_visited_nodes(visited_nodes, dbms.query_id)
  /\ released' = IF dbms.query_id \in DOMAIN visited_nodes
                 THEN released \cup {dbms.query_id} ELSE released
  /\ UNCHANGED <<new, properties, node_ids, edges, node_rets, edge_rets, deleted, removed,
                 frames, call, file_mmap>>

\* the node ids DBMS.find_neighbours is called with
DbmsStarts == { CompositeId(WorkerW, n) : n \in ReturnedNodes } \cup { CompositeId(WorkerV, first_id) }

DbmsNext ==
  \/ EngineCreateNode(NodeProps)
  \/ \E f \in ReturnedNodes, t \in ReturnedNodes : EngineCreateEdge(f, t, <<>>)
  \/ \E f \in ReturnedNodes : EngineCreateEdge(f, 0, RemoteId(Len(edge_rets) + 1))
  \/ \E s \in DbmsStarts, h \in Hops, q \in QueryIds : DbmsCall(s, h, q)
  \/ DbmsRound
  \/ DbmsReturn

\* the DBMS over two workers: nodes and edges are created on 'w', then
\* DBMS.find_neighbours is called
SpecDbms == InitEngine /\ [][DbmsNext]_vars

\* the calls of DBMS.find_neighbours alone, with worker 'w' on one of the
\* stores of two nodes; a call that has begun runs on: a turn of its loop
\* that can be taken is taken, and so is its return
DbmsRunNext ==
  \/ \E s \in DbmsStarts, h \in Hops, q \in QueryIds : DbmsCall(s, h, q)
  \/ DbmsRound
  \/ DbmsReturn

\* the orchestrator's thread keeps running: weak fairness of the loop's turn,
\* written with the guard of DbmsRound
DbmsRoundFair ==
  \/ []<>(~(dbms.pc = "loop" /\ dbms.nodes_to_process # <<>>))
  \/ []<><<DbmsRound>>_vars

SpecDbmsFair ==
  InitThreads /\ [][DbmsRunNext]_vars /\ DbmsRoundFair /\ WF_vars(DbmsReturn)

(***************************************************************************)
(* The calls of GraphEngine.create_edge with every combination of its      *)
(* arguments; call records the arguments and the outcome of the last one   *)
(* and the files it found.                                                 *)
(***************************************************************************)
\* the number of nodes the calls of create_edge find, and the number of
\* edges they create in a behaviour
MaxCallNodes == 2
MaxCallEdges == 1

\* GraphEngine.delete_node(node_id)
EngineDeleteNode(node_id) == NoTraversal /\ DeleteNode(node_id)

\* GraphEngine.create_edge(from_node, EdgeProps, to_node, to_node_remote,
\* node_properties): to_node 0 and to_node_remote <<>> are None; an
\* exception leaves the files as they are (it is raised on line 182, before
\* the first write)
CreateEdgeCall(from_node, to_node, to_node_remote, node_properties) ==
  LET r == GraphEngine_create_edge(properties, node_ids, edges, from_node, EdgeProps,
                                   to_node, to_node_remote, node_properties)
  IN  /\ NoTraversal
      /\ Len(edge_rets) < MaxCallEdges
      /\ _read_cur_edge_id(edges) <= MaxEdgeId
      /\ _read_cur_node_id(node_ids) + 1 <= MaxEngineNodeId
      /\ _read_cur_addr(properties)
           + Len(_pack_node([props |-> PlaceholderProps(NodeProps, RemoteId(1))]))
           + Len(_pack_node([props |-> EdgeProps])) <= EngineBytes
      /\ properties' = r.P
      /\ node_ids' = r.N
      /\ edges' = r.E
      /\ edge_rets' = IF r.ret # 0 THEN Append(edge_rets, r.ret) ELSE edge_rets
      /\ call' = [op |-> "create_edge", from_node |-> from_node, to_node |-> to_node,
                  to_node_remote |-> to_node_remote, node_properties |-> node_properties,
                  ret |-> r.ret, raised |-> r.raised,
                  P |-> properties, N |-> node_ids, E |-> edges]
      /\ UNCHANGED <<new, node_rets, deleted, removed, visited_nodes, frames, released, dbms, file_mmap>>

\* node_properties of a call: {}, {'a': 1}, and None, the default, which is
\* what add_edge of the HTTP layer leaves it at
RemoteProps == { PyNone, PyDict(<<>>), PyDict(NodeProps) }

\* the nodes are created and deleted first, then create_edge is called
CreateEdgeNext ==
  \/ call = NoCall /\ Len(node_rets) < MaxCallNodes /\ EngineCreateNode(NodeProps)
  \/ \E n \in ReturnedNodes : call = NoCall /\ EngineDeleteNode(n)
  \/ \E f \in 1..MaxCallNodes, t \in 0..MaxCallNodes, r \in {<<>>, RemoteId(1)},
        np \in RemoteProps : CreateEdgeCall(f, t, r, np)

SpecCreateEdge == InitEngine /\ [][CreateEdgeNext]_vars

TypeOK ==
  /\ new \in BOOLEAN
  /\ \A a \in DOMAIN properties : properties[a] \in 0..255
  /\ \A i \in DOMAIN node_ids : node_ids[i] \in Nat
  /\ \A i \in DOMAIN edges : edges[i] \in Nat
  /\ deleted \subseteq ReturnedNodes
  /\ removed \subseteq ReturnedEdges

(***************************************************************************)
(* The claims.                                                             *)
(***************************************************************************)
\* the record a successful get_node or get_edge returns has these props
HasProps(r, kind, props) == r.kind = kind /\ DictEq(r.props, props)

\* C1: after update_node(id, new_props) on a live node, the first node of
\* the store included, get_node(id) returns a property map equal to
\* new_props, whether or not the packed length of new_props is that of the
\* old record.
C1_UpdateThenGet ==
  [][\A nid \in ReturnedNodes, props \in NodePool :
       UpdateNode(nid, props) =>
         HasProps(get_node(properties', node_ids', nid), "Node", props)]_vars

\* the endpoints of the edge slot eid
from_nid_of(E, eid) == EdgeWord(E, _edge_address(eid), 0)
to_nid_of(E, eid) == EdgeWord(E, _edge_address(eid), 1)
\* a live edge: a created edge whose from_nid is not 0
LiveEdge(E, eid) == eid \in ReturnedEdges /\ from_nid_of(E, eid) # NODE_ID_NONE
InSeq(x, sq) == \E i \in DOMAIN sq : sq[i] = x
\* sq without the occurrences of x, the order of the others kept
RECURSIVE Without(_, _)
Without(sq, x) ==
  IF sq = <<>> THEN <<>>
  ELSE (IF Head(sq) = x THEN <<>> ELSE <<Head(sq)>>) \o Without(Tail(sq), x)

\* C2: in every reachable state, every live edge e (from_nid # 0) with
\* endpoints (u, v) is yielded by edges_from(u) and by edges_to(v); a
\* self-loop (u, u) is yielded by both edges_from(u) and edges_to(u).
C2_AdjacencySymmetry ==
  \A eid \in ReturnedEdges :
    LiveEdge(edges, eid) =>
      /\ InSeq(eid, edges_from(node_ids, edges, from_nid_of(edges, eid)))
      /\ InSeq(eid, edges_to(node_ids, edges, to_nid_of(edges, eid)))

\* C3: once delete_node(id) has been called on a node, get_node(id) returns
\* None and id is not among the ids get_node_ids() yields, in the state
\* after the call and in every later state.
C3_DeletedIsGone ==
  \A nid \in deleted :
    /\ get_node(properties, node_ids, nid) = None
    /\ ~InSeq(nid, get_node_ids(node_ids))

\* C4: after remove_edge(e) on a live edge e = (u, v), e is yielded by none
\* of edges_from(u), edges_to(v) and get_edge_ids(); the other edges of the
\* two lists are still on them in the same order, and each list is shorter
\* by exactly one.
C4_RemoveUnlinks ==
  [][\A eid \in ReturnedEdges :
       LiveEdge(edges, eid) /\ RemoveEdge(eid) =>
         /\ edges_from(node_ids', edges', from_nid_of(edges, eid))
              = Without(edges_from(node_ids, edges, from_nid_of(edges, eid)), eid)
         /\ edges_to(node_ids', edges', to_nid_of(edges, eid))
              = Without(edges_to(node_ids, edges, to_nid_of(edges, eid)), eid)
         /\ Len(edges_from(node_ids', edges', from_nid_of(edges, eid)))
              = Len(edges_from(node_ids, edges, from_nid_of(edges, eid))) - 1
         /\ Len(edges_to(node_ids', edges', to_nid_of(edges, eid)))
              = Len(edges_to(node_ids, edges, to_nid_of(edges, eid))) - 1
         /\ get_edge_ids(properties', edges').ok
         /\ ~InSeq(eid, get_edge_ids(properties', edges').ids)]_vars

\* C5: a lookup of an absent id returns None: get_node(id) for an id that
\* was never allocated or was deleted, get_edge(id) for an edge slot whose
\* from_nid is 0 (removed or never created).
C5_AbsentIsNone ==
  /\ \A nid \in 1..MaxNodeId :
       (nid \notin ReturnedNodes \/ nid \in deleted) =>
         get_node(properties, node_ids, nid) = None
  /\ \A eid \in 1..MaxEdgeId :
       from_nid_of(edges, eid) = NODE_ID_NONE =>
         get_edge(properties, edges, eid) = None

\* C6: delete_node(id) leaves the two adjacency-list heads of id and every
\* edge slot unchanged: edges_from(id) and edges_to(id) yield the same
\* sequences right before and right after the call.
C6_DeleteKeepsEdges ==
  [][\A nid \in ReturnedNodes :
       DeleteNode(nid) =>
         /\ edges' = edges
         /\ _read_first_edge_from_node(node_ids', nid)
              = _read_first_edge_from_node(node_ids, nid)
         /\ _read_first_edge_to_node(node_ids', nid)
              = _read_first_edge_to_node(node_ids, nid)
         /\ edges_from(node_ids', edges', nid) = edges_from(node_ids, edges, nid)
         /\ edges_to(node_ids', edges', nid) = edges_to(node_ids, edges, nid)]_vars

\* C7: a store opened with new = False on files that did not exist starts
\* with its three header counters at 1; create_node and create_edge return
\* 1, 2, ... from their first call on, never 0, and the id counters stay
\* one more than the number of ids returned (no slot write lands on them).
C7_OpenedCountersStartAtOne ==
  /\ \A i \in DOMAIN node_rets : node_rets[i] = i
  /\ \A i \in DOMAIN edge_rets : edge_rets[i] = i
  /\ _read_cur_node_id(node_ids) = Len(node_rets) + 1
  /\ _read_cur_edge_id(edges) = Len(edge_rets) + 1
  /\ node_rets = <<>> => _read_cur_addr(properties) = 1

\* the id the last create_node or create_edge call returned
LastOf(rets) == rets[Len(rets)]

\* C8: in a store created with new = True, create_node returns 1, 2, 3, ...
\* and create_edge returns 1, 2, 3, ... in call order, whatever delete_node,
\* update_node and remove_edge calls come in between: never 0, never an id
\* returned before.
C8_IdsCountUp ==
  /\ \A i \in DOMAIN node_rets : node_rets[i] = i
  /\ \A i \in DOMAIN edge_rets : edge_rets[i] = i

\* two nodes and two edges created, a node deleted and an edge removed
C8_Witness ==
  /\ node_rets = <<1, 2>> /\ edge_rets = <<1, 2>>
  /\ 1 \in deleted /\ 1 \in removed
  /\ LiveEdge(edges, 2)

\* C9: for every property map of ints, exact floats, booleans and texts,
\* the empty map included, get_node(create_node(props)).props equals props
\* and the returned id is yielded by get_node_ids(); a later create_node
\* leaves the props of every node created before as they were.
C9_CreateThenGet ==
  [][\A props \in CodecPool :
       CreateNode(props) =>
         /\ HasProps(get_node(properties', node_ids', LastOf(node_rets')), "Node", props)
         /\ InSeq(LastOf(node_rets'), get_node_ids(node_ids'))
         /\ \A nid \in ReturnedNodes :
              HasProps(get_node(properties', node_ids', nid), "Node",
                       get_node(properties, node_ids, nid).props)]_vars

\* a node holding a negative int is read back after a node holding a text
\* of multi-byte code points was created before it
C9_Witness ==
  /\ node_rets = <<1, 2>>
  /\ HasProps(get_node(properties, node_ids, 1), "Node", << <<KeyA, PyStr(<<8364, 122>>)>> >>)
  /\ HasProps(get_node(properties, node_ids, 2), "Node", << <<KeyA, PyInt(0 - 2)>> >>)

\* C10: for live nodes u, v and p, get_edge(create_edge(u, v, p)) has
\* fnid = u, tnid = v and the props get_node(p) had at the call, and the new
\* id is yielded by get_edge_ids(); the id is a new one and the edges
\* created before keep their endpoints and props (parallel edges included).
C10_CreateEdgeThenGet ==
  [][\A u \in ReturnedNodes, v \in ReturnedNodes, p \in ReturnedNodes :
       CreateEdge(u, v, p) =>
         /\ get_edge(properties', edges', LastOf(edge_rets')).kind = "Edge"
         /\ get_edge(properties', edges', LastOf(edge_rets')).fnid = u
         /\ get_edge(properties', edges', LastOf(edge_rets')).tnid = v
         /\ DictEq(get_edge(properties', edges', LastOf(edge_rets')).props,
                   get_node(properties, node_ids, p).props)
         /\ get_edge_ids(properties', edges').ok
         /\ InSeq(LastOf(edge_rets'), get_edge_ids(properties', edges').ids)
         /\ LastOf(edge_rets') \notin ReturnedEdges
         /\ \A e \in ReturnedEdges :
              /\ from_nid_of(edges', e) = from_nid_of(edges, e)
              /\ to_nid_of(edges', e) = to_nid_of(edges, e)
              /\ get_edge(properties', edges', e).props
                   = get_edge(properties, edges, e).props]_vars

\* two live parallel edges from node 1 to node 2
C10_Witness ==
  /\ edge_rets = <<1, 2>>
  /\ LiveEdge(edges, 1) /\ LiveEdge(edges, 2)
  /\ from_nid_of(edges, 1) = 1 /\ to_nid_of(edges, 1) = 2
  /\ from_nid_of(edges, 2) = 1 /\ to_nid_of(edges, 2) = 2

C12_UpdateFrame ==
  [][\A nid \in ReturnedNodes, props \in LongPool :
       UpdateNode(nid, props) =>
         /\ \A j \in ReturnedNodes \ {nid} :
              get_node(properties, node_ids, j).kind = "Node" =>
                HasProps(get_node(properties', node_ids', j), "Node",
                         get_node(properties, node_ids, j).props)
         /\ \A j \in ReturnedNodes :
              /\ edges_from(node_ids', edges', j) = edges_from(node_ids, edges, j)
              /\ edges_to(node_ids', edges', j) = edges_to(node_ids, edges, j)
         /\ edges' = edges
         /\ _read_cur_node_id(node_ids') = _read_cur_node_id(node_ids)
         /\ _read_cur_edge_id(edges') = _read_cur_edge_id(edges)]_vars

\* the graph the store holds, read from the slots: the live edges that pass
\* the edge predicate and the live nodes that pass the node predicate
PassesEdge(eid, ep) ==
  /\ LiveEdge(edges, eid)
  /\ ep = <<>> \/ check_properties(get_edge(properties, edges, eid).props, ep) = "True"
PassesNode(nid, np) ==
  /\ get_node(properties, node_ids, nid).kind = "Node"
  /\ np = <<>> \/ check_properties(get_node(properties, node_ids, nid).props, np) = "True"
IsRemote(nid) == IsPlaceholder(get_node(properties, node_ids, nid))
\* the local nodes one outgoing edge away from a node of S
Successors(S, np, ep) ==
  { to_nid_of(edges, eid) : eid \in { e \in ReturnedEdges :
      /\ from_nid_of(edges, e) \in S
      /\ PassesEdge(e, ep)
      /\ PassesNode(to_nid_of(edges, e), np)
      /\ ~IsRemote(to_nid_of(edges, e)) } }
RECURSIVE Within(_, _, _, _)
\* the local nodes at most k outgoing edges away from a node of S
Within(S, k, np, ep) ==
  IF k = 0 THEN S ELSE Within(S \cup Successors(S, np, ep), k - 1, np, ep)
\* the node ids of the node records of a list of neighbours
RecordIds(neighbours) ==
  { neighbours[i].node_id : i \in { j \in DOMAIN neighbours : neighbours[j].kind = "Node" } }

\* C13: for a query id that has no visited entry and hops = k >= 1,
\* find_neighbours(start, k, ...) returns, as a node record of
\* local_matches, every local non-placeholder node that a path of at most k
\* outgoing edges reaches from start, the edges passing edge_pred and the
\* nodes node_pred: nodes at distance 2..k too.
C13_AllWithinHops ==
  \A start \in ReturnedNodes, k \in 1..MaxHops, np \in NodePreds, ep \in EdgePreds :
    "q1" \notin DOMAIN visited_nodes =>
      Within({start}, k, np, ep) \ {start}
        \subseteq RecordIds(find_neighbours(properties, node_ids, edges, visited_nodes,
                                            start, k, "q1", np, ep).neighbours)

\* element x of a list of neighbours is the record of a live local node that
\* outgoing edges reach from start within k hops and that passes np
IsLocalMatch(x, start, k, np, ep) ==
  /\ x.kind = "Node"
  /\ get_node(properties, node_ids, x.node_id).kind = "Node"
  /\ DictEq(x.props, get_node(properties, node_ids, x.node_id).props)
  /\ ~IsPlaceholder(x)
  /\ x.node_id \in Within({start}, k, <<>>, ep)
  /\ PassesNode(x.node_id, np)
OnlyLocalMatches(neighbours, start, k, np, ep) ==
  \A i \in DOMAIN neighbours : IsLocalMatch(neighbours[i], start, k, np, ep)

\* C14: every element of local_matches returned by find_neighbours is a node
\* record (id and properties, never a bare id) of a live non-placeholder node
\* that outgoing edges reach from start within the hop budget and that
\* passes node_pred; nodes reached through incoming edges only are absent.
C14_OnlyRecords ==
  \A start \in ReturnedNodes, k \in 1..MaxHops, np \in NodePreds, ep \in EdgePreds :
    "q1" \notin DOMAIN visited_nodes =>
      OnlyLocalMatches(find_neighbours(properties, node_ids, edges, visited_nodes,
                                       start, k, "q1", np, ep).neighbours,
                       start, k, np, ep)

\* no node id occurs at two positions of a list of neighbours (the bare id
\* of the start node counts as an occurrence of the start node)
NoNodeTwice(neighbours) ==
  \A i \in DOMAIN neighbours, j \in DOMAIN neighbours :
    i # j => neighbours[i].node_id # neighbours[j].node_id

\* C15: local_matches contains no node twice: in every graph, with parallel
\* edges, cycles and self-loops on start too, each node id occurs at most
\* once in the list one find_neighbours call returns.
C15_NoDuplicates ==
  \A start \in ReturnedNodes, k \in 1..MaxHops, np \in NodePreds, ep \in EdgePreds :
    NoNodeTwice(find_neighbours(properties, node_ids, edges, visited_nodes,
                                start, k, "q1", np, ep).neighbours)

\* two parallel edges from start to t and a call that returns t once
C15_Witness ==
  \E start \in ReturnedNodes, t \in ReturnedNodes :
    /\ start # t
    /\ \E e1 \in ReturnedEdges, e2 \in ReturnedEdges :
         /\ e1 # e2
         /\ LiveEdge(edges, e1) /\ LiveEdge(edges, e2)
         /\ from_nid_of(edges, e1) = start /\ to_nid_of(edges, e1) = t
         /\ from_nid_of(edges, e2) = start /\ to_nid_of(edges, e2) = t
    /\ "q1" \notin DOMAIN visited_nodes
    /\ Len(find_neighbours(properties, node_ids, edges, visited_nodes,
                           start, 2, "q1", <<>>, <<>>).neighbours) = 2
    /\ RecordIds(find_neighbours(properties, node_ids, edges, visited_nodes,
                                 start, 2, "q1", <<>>, <<>>).neighbours) = {t}

\* the local nodes exactly d outgoing edges away from start: the frontier
\* nodes dequeued with k - d hops remaining in a traversal with budget k
Frontier(start, d, ep) ==
  IF d = 0 THEN {start}
  ELSE Within({start}, d, <<>>, ep) \ Within({start}, d - 1, <<>>, ep)
\* the edges from a node of S to a remote placeholder node
PlaceholderEdges(S, ep) ==
  { e \in ReturnedEdges :
      /\ from_nid_of(edges, e) \in S
      /\ PassesEdge(e, ep)
      /\ get_node(properties, node_ids, to_nid_of(edges, e)).kind = "Node"
      /\ IsRemote(to_nid_of(edges, e)) }
\* the continuations of a result that carry h hops
WithHops(remote_nodes, h) == { i \in DOMAIN remote_nodes : remote_nodes[i][2] = h }
\* a result r of find_neighbours(start, k, ...) holds one continuation
\* (remote_node_id, h - 1) for each edge from a frontier node with h hops
\* remaining to a placeholder, and no placeholder among its neighbours
ContinuationsOf(r, start, k, ep) ==
  /\ \A h \in 1..k :
       /\ Cardinality(WithHops(r.remote_nodes, h - 1))
            = Cardinality(PlaceholderEdges(Frontier(start, k - h, ep), ep))
       /\ \A i \in WithHops(r.remote_nodes, h - 1) :
            \E e \in PlaceholderEdges(Frontier(start, k - h, ep), ep) :
              r.remote_nodes[i][1]
                = DictGet(get_node(properties, node_ids, to_nid_of(edges, e)).props,
                          KeyRemoteNodeId)
  /\ \A i \in DOMAIN r.neighbours :
       r.neighbours[i].kind = "Node" => ~IsPlaceholder(r.neighbours[i])

\* C16: for every frontier node dequeued with h hops remaining and every
\* outgoing edge of it whose target is an unseen remote placeholder,
\* find_neighbours emits exactly one continuation (remote_node_id of the
\* placeholder, h - 1); no placeholder is put in local_matches or expanded.
C16_Continuations ==
  \A start \in ReturnedNodes, k \in 1..MaxHops, ep \in EdgePreds :
    "q1" \notin DOMAIN visited_nodes =>
      ContinuationsOf(find_neighbours(properties, node_ids, edges, visited_nodes,
                                      start, k, "q1", <<>>, ep),
                      start, k, ep)

\* two results of find_neighbours agree: the lists returned, the exception
\* and the node ids marked for the query id each call ran with
SameResult(r1, q1, r2, q2) ==
  /\ r1.raised = r2.raised
  /\ r1.neighbours = r2.neighbours
  /\ r1.remote_nodes = r2.remote_nodes
  /\ (q1 \in DOMAIN r1.V) = (q2 \in DOMAIN r2.V)
  /\ q1 \in DOMAIN r1.V => r1.V[q1] = r2.V[q2]

\* C17: after clear_visited(q) a find_neighbours call that reuses q returns
\* what the same call returns with a query id never used; clear_visited on
\* a query id without an entry raises nothing and changes no state.
C17_ClearThenFresh ==
  /\ [](\A start \in ReturnedNodes, k \in Hops, np \in NodePreds, ep \in EdgePreds :
          "q1" \in released =>
            SameResult(find_neighbours(properties, node_ids, edges, visited_nodes,
                                       start, k, "q1", np, ep), "q1",
                       find_neighbours(properties, node_ids, edges, visited_nodes,
                                       start, k, FreshQueryId, np, ep), FreshQueryId))
  /\ [][ClearVisitedNodes("q1") /\ "q1" \notin DOMAIN visited_nodes
          => UNCHANGED vars]_vars

\* the entry of q1 was released, no call has used q1 since, and a traversal
\* from some node with a successor returns that successor again
C17_Witness ==
  /\ "q1" \in released
  /\ \E start \in ReturnedNodes :
       Len(find_neighbours(properties, node_ids, edges, visited_nodes,
                           start, 1, "q1", <<>>, <<>>).neighbours) >= 2

\* the remote ids of the placeholder nodes among the node ids of S
RemoteIdsOf(S) ==
  { DictGet(get_node(properties, node_ids, p).props, KeyRemoteNodeId) :
      p \in { n \in S : /\ get_node(properties, node_ids, n).kind = "Node"
                        /\ IsRemote(n) } }
\* a result holds no node of S, as a neighbour or as a continuation
AvoidsMarked(r, S) ==
  /\ \A i \in DOMAIN r.neighbours : r.neighbours[i].node_id \notin S
  /\ \A i \in DOMAIN r.remote_nodes : r.remote_nodes[i][1] \notin RemoteIdsOf(S)

\* C18: the visited set of a query id persists between calls until it is
\* released: of two find_neighbours calls with one query id and no
\* clear_visited in between, the second neither returns in local_matches
\* nor emits as a continuation a node the first call marked visited.
C18_VisitedPersists ==
  \A start \in ReturnedNodes, k \in Hops, np \in NodePreds, ep \in EdgePreds :
    "q1" \in DOMAIN visited_nodes =>
      AvoidsMarked(find_neighbours(properties, node_ids, edges, visited_nodes,
                                   start, k, "q1", np, ep),
                   visited_nodes["q1"])

\* the call of frame f ends as the same call does when no other request
\* runs: r is the result of find_neighbours on the entry the call found
EndsAs(f, r, V) ==
  /\ f.st.raised = r.raised
  /\ f.st.neighbours = r.neighbours
  /\ f.st.remote_nodes = r.remote_nodes
  /\ (f.query_id \in DOMAIN V) = (f.query_id \in DOMAIN r.V)
  /\ f.query_id \in DOMAIN V => V[f.query_id] = r.V[f.query_id]
SameAsAlone(f) ==
  EndsAs(f, find_neighbours(properties, node_ids, edges, f.V0, f.node_id, f.hops,
                            f.query_id, f.node_properties, f.edge_properties),
         visited_nodes)
\* a step keeps the visited entries of the query ids other than q
KeepsOthers(q) ==
  \A k \in DOMAIN visited_nodes \ {q} :
    k \in DOMAIN visited_nodes' /\ visited_nodes'[k] = visited_nodes[k]

\* C19: traversals with distinct query ids are independent under every
\* interleaving of their steps on one shard that no request writes: each
\* call returns what it returns when run alone, and clear_visited(q1) never
\* removes or alters the visited set of q2.
C19_Independent ==
  /\ [](\A t \in Threads : frames[t].pc = "fn_return" => SameAsAlone(frames[t]))
  /\ [][\A t \in Threads : ClCheck(t) \/ ClPop(t) => KeepsOthers(QueryOf(t))]_vars

\* both requests are about to return, each with a neighbour found, and they
\* marked a node in common
C19_Witness ==
  /\ \A t \in Threads :
       frames[t].pc = "fn_return" /\ Len(frames[t].st.neighbours) >= 2
  /\ visited_nodes["q1"] \cap visited_nodes["q2"] # {}

\* the follow-up requests of the call: those sent after the first and those
\* still in nodes_to_process
FollowUps ==
  IF dbms.requests = <<>> THEN <<>>
  ELSE Tail(dbms.requests) \o (IF dbms.pc = "raised" THEN <<>> ELSE dbms.nodes_to_process)

\* C20: when a shard answers with a continuation (r, h), the orchestrator
\* issues a follow-up findNeighbours for r to r's shard with hops = h; each
\* distinct remote id is followed at most once per query, and the final
\* result holds each composite node id at most once across the shards.
C20_FollowUps ==
  /\ \A c \in dbms.conts :
       \E i \in DOMAIN FollowUps :
         /\ FollowUps[i][1] = c[1]
         /\ <<c[1], FollowUps[i][2]>> \in dbms.conts
  /\ \A i \in DOMAIN FollowUps, j \in DOMAIN FollowUps :
       i # j => FollowUps[i][1] # FollowUps[j][1]
  /\ dbms.pc = "done" =>
       \A i \in DOMAIN dbms.neighbours, j \in DOMAIN dbms.neighbours :
         i # j => dbms.neighbours[i][1] # dbms.neighbours[j][1]

\* C21: every run of the orchestrator's find_neighbours eventually releases
\* the visited state: once the traversal has started, clearVisitedNodes is
\* issued to every worker, and after the call has ended no shard keeps a
\* visited entry for its query id.
C21_EventuallyReleased ==
  \A q \in QueryIds :
    (dbms.pc = "loop" /\ dbms.query_id = q)
      ~> (dbms.pc = "done" /\ q \notin DOMAIN visited_nodes /\ q \notin DOMAIN dbms.Vv)

(***************************************************************************)
(* The growth of a file: every read and every write of the storage asks    *)
(* _ensure_length for the mmap before it slices it.  The three files go     *)
(* through the same code, each with its own file and mmap object; a        *)
(* behaviour follows one of them.  Offset a of the file is mmap[a + 1].     *)
(***************************************************************************)
\* the highest offset t a read or a write asks for
MaxOffset == 5

FileNames == {"properties", "node_ids", "edges"}

\* a mapping of the file as written anew: the bytes written before are gone
_ensure_length_fresh(t, m) ==
  IF Len(m) > t THEN m
  ELSE [i \in 1..(Len(m) + (t - Len(m)) * 2 + (Len(m) \div 2)) |-> 0]

\* GraphStorage._ensure_length(t, file, file_mmap): the bytes of the mmap
\* returned; add_size zero bytes are written at the end of the file, which
\* is then mapped whole
_ensure_length(t, m) ==
  IF Len(m) > t THEN m
  ELSE m \o [i \in 1..((t - Len(m)) * 2 + (Len(m) \div 2)) |-> 0]

\* m[cur:t] = packed
SliceAssign(m, cur, t, packed) ==
  [i \in DOMAIN m |-> IF cur < i /\ i <= t THEN packed[i - cur] ELSE m[i]]
\* m[f:t]
Slice(m, f, t) == [i \in 1..(t - f) |-> m[f + i]]

\* the history after packed was written at cur
Written(w, cur, packed) ==
  [a \in DOMAIN w \cup cur..(cur + Len(packed) - 1) |->
     IF a >= cur /\ a < cur + Len(packed) THEN packed[a - cur + 1] ELSE w[a]]

\* file_mmap after _ensure_length returned m: the assert of line 236 has
\* passed
Remapped(m) ==
  [file_mmap EXCEPT !.mmap = m,
                    !.growths = IF Len(m) > Len(file_mmap.mmap) THEN @ + 1 ELSE @]

\* a write of the storage (_write_uint_to_*, _write_node_to_properties,
\* _write_edge_to_edges): m = _ensure_*_mmap_length(t); m[cur:t] = packed.
\* A failed assert leaves the call with AssertionError.
WriteAt(cur, packed) ==
  LET t == cur + Len(packed)
      m == _ensure_length(t, file_mmap.mmap)
  IN  /\ t <= MaxOffset
      /\ file_mmap' = IF Len(m) > t
                      THEN [Remapped(m) EXCEPT !.mmap = SliceAssign(m, cur, t, packed),
                                               !.written = Written(@, cur, packed)]
                      ELSE file_mmap
      /\ call' = [op |-> "write", cur |-> cur, t |-> t, raised |-> ~(Len(m) > t),
                  grew |-> Len(m) > Len(file_mmap.mmap), res |-> packed]
      /\ UNCHANGED <<new, properties, node_ids, edges, node_rets, edge_rets, deleted, removed,
                     visited_nodes, frames, released, dbms>>

\* a read of the storage (_read_uint_from_*, _read_*_from_properties):
\* m = _ensure_*_mmap_length(t); m[f:t]
ReadAt(f, size) ==
  LET t == f + size
      m == _ensure_length(t, file_mmap.mmap)
  IN  /\ t <= MaxOffset
      /\ file_mmap' = IF Len(m) > t THEN Remapped(m) ELSE file_mmap
      /\ call' = [op |-> "read", cur |-> f, t |-> t, raised |-> ~(Len(m) > t),
                  grew |-> Len(m) > Len(file_mmap.mmap),
                  res |-> IF Len(m) > t THEN Slice(m, f, t) ELSE <<>>]
      /\ UNCHANGED <<new, properties, node_ids, edges, node_rets, edge_rets, deleted, removed,
                     visited_nodes, frames, released, dbms>>

\* the store after construction, with one of its three files followed
InitGrowth ==
  /\ new = TRUE
  /\ properties = __init__(TRUE).P
  /\ node_ids = __init__(TRUE).N
  /\ edges = __init__(TRUE).E
  /\ node_rets = <<>>
  /\ edge_rets = <<>>
  /\ deleted = {}
  /\ removed = {}
  /\ visited_nodes = <<>>
  /\ frames = IdleFrames
  /\ released = {}
  /\ dbms = IdleDbms
  /\ call = NoCall
  /\ \E file \in FileNames : file_mmap = MadeFile(file)

\* the bytes written: one or two bytes of the values 1 and 2
PackedPool == { <<1>>, <<2>>, <<1, 2>>, <<2, 1>> }

GrowthNext ==
  \/ \E cur \in 0..MaxOffset, packed \in PackedPool : WriteAt(cur, packed)
  \/ \E f \in 0..MaxOffset, size \in 1..2 : ReadAt(f, size)

SpecGrowth == InitGrowth /\ [][GrowthNext]_vars

(***************************************************************************)
(* The predicates: check_properties applied to property maps, and          *)
(* get_nodes_by_properties and get_edges_by_properties applied to the      *)
(* store.                                                                  *)
(***************************************************************************)
\* the number of kinds in a predicate
MaxPredKinds == 2

\* the property maps tested: {}, {'a': 1}, {'a': 2}, {'b': 1}, {'a': 1, 'b': 2}
PredMaps ==
  { <<>>, << <<KeyA, PyInt(1)>> >>, << <<KeyA, PyInt(2)>> >>, << <<KeyB, PyInt(1)>> >>,
    << <<KeyA, PyInt(1)>>, <<KeyB, PyInt(2)>> >> }

\* the operands: the maps {}, {'a': 1}, {'a': 2}, {'a': 1, 'b': 1} and the
\* lists [] and ['a']
MapOperands ==
  { PyDict(<<>>), PyDict(<< <<KeyA, PyInt(1)>> >>), PyDict(<< <<KeyA, PyInt(2)>> >>),
    PyDict(<< <<KeyA, PyInt(1)>>, <<KeyB, PyInt(1)>> >>) }
ListOperands == { PyList(<<>>), PyList(<<KeyA>>) }

AllKinds == MapKinds \cup {"negative_props", "greater_or_equal_props"}

\* the operand has the shape its kind asks for
WellFormed(kind, operand) ==
  IF kind = "negative_props" THEN operand.t = "list" ELSE operand.t = "dict"

\* the predicates: up to MaxPredKinds kinds in the order of the dict, each
\* kind at most once, each with an operand of either shape
Predicates ==
  { d \in UNION { [1..n -> AllKinds \X (MapOperands \cup ListOperands)] : n \in 0..MaxPredKinds } :
      \A i \in DOMAIN d, j \in DOMAIN d : i # j => d[i][1] # d[j][1] }

\* check_properties(props, desirable_props)
CheckProperties(props, desirable_props) ==
  /\ call' = [op |-> "check_properties", props |-> props,
              desirable_props |-> desirable_props,
              res |-> check_properties(props, desirable_props)]
  /\ UNCHANGED <<new, properties, node_ids, edges, node_rets, edge_rets, deleted, removed,
                 visited_nodes, frames, released, dbms, file_mmap>>

\* one evaluation of check_properties, over every property map and every
\* predicate
CheckNext == \E p \in PredMaps, d \in Predicates : call = NoCall /\ CheckProperties(p, d)

SpecCheck == InitEngine /\ [][CheckNext]_vars

\* the predicates of the searches: none, {'equal_props': {'a': 1}}, and
\* predicates with a malformed operand, alone, after and before a kind that
\* fails on {'a': 1}: {'less_props': ['a']}, {'negative_props': {'a': 1}},
\* {'equal_props': {'a': 2}, 'less_props': ['a']} and
\* {'less_props': ['a'], 'equal_props': {'a': 2}}
FindPreds ==
  { <<>>,
    << <<"equal_props", PyDict(<< <<KeyA, PyInt(1)>> >>)>> >>,
    << <<"less_props", PyList(<<KeyA>>)>> >>,
    << <<"negative_props", PyDict(<< <<KeyA, PyInt(1)>> >>)>> >>,
    << <<"equal_props", PyDict(<< <<KeyA, PyInt(2)>> >>)>>, <<"less_props", PyList(<<KeyA>>)>> >>,
    << <<"less_props", PyList(<<KeyA>>)>>, <<"equal_props", PyDict(<< <<KeyA, PyInt(2)>> >>)>> >> }

\* GraphEngine.create_edge(from_node, properties_, to_node) between two nodes
EngineCreateEdgeOf(from_node, to_node, properties_) ==
  LET r == GraphEngine_create_edge(properties, node_ids, edges, from_node, properties_,
                                   to_node, <<>>, PyNone)
  IN  /\ NoTraversal
      /\ Len(edge_rets) < MaxCallEdges
      /\ _read_cur_edge_id(edges) <= MaxEdgeId
      /\ _read_cur_node_id(node_ids) <= MaxEngineNodeId
      /\ _read_cur_addr(properties) + Len(_pack_node([props |-> EdgeProps])) <= EngineBytes
      /\ ~r.raised /\ r.ret # 0
      /\ properties' = r.P
      /\ node_ids' = r.N
      /\ edges' = r.E
      /\ edge_rets' = Append(edge_rets, r.ret)
      /\ UNCHANGED <<new, node_rets, deleted, removed, visited_nodes, frames, released, dbms, call, file_mmap>>

\* GraphEngine.delete_edge(edge_id) on an edge that has not been deleted
EngineDeleteEdge(edge_id) ==
  LET r == remove_edge(node_ids, edges, edge_id)
  IN  /\ NoTraversal
      /\ edge_id \notin removed
      /\ node_ids' = r.N
      /\ edges' = r.E
      /\ removed' = removed \cup {edge_id}
      /\ UNCHANGED <<new, properties, node_rets, edge_rets, deleted, visited_nodes, frames, released, dbms, call, file_mmap>>

\* GraphEngine.get_nodes_by_properties(desirable_props)
FindNodes(desirable_props) ==
  /\ call' = [op |-> "find_nodes", desirable_props |-> desirable_props,
              res |-> get_nodes_by_properties(properties, node_ids, desirable_props)]
  /\ UNCHANGED <<new, properties, node_ids, edges, node_rets, edge_rets, deleted, removed,
                 visited_nodes, frames, released, dbms, file_mmap>>

\* GraphEngine.get_edges_by_properties(desirable_props)
FindEdges(desirable_props) ==
  /\ call' = [op |-> "find_edges", desirable_props |-> desirable_props,
              res |-> get_edges_by_properties(properties, node_ids, edges, desirable_props)]
  /\ UNCHANGED <<new, properties, node_ids, edges, node_rets, edge_rets, deleted, removed,
                 visited_nodes, frames, released, dbms, file_mmap>>

\* nodes with and without properties and an edge with or without
\* properties are created and deleted, then one search or one evaluation
\* of a predicate is made
FindNext ==
  \/ \E props \in {NodeProps, <<>>} :
       call = NoCall /\ Len(node_rets) < MaxCallNodes /\ EngineCreateNode(props)
  \/ \E n \in ReturnedNodes : call = NoCall /\ EngineDeleteNode(n)
  \/ \E f \in ReturnedNodes, t \in ReturnedNodes, props \in {EdgeProps, <<>>} :
       call = NoCall /\ EngineCreateEdgeOf(f, t, props)
  \/ \E e \in ReturnedEdges : call = NoCall /\ EngineDeleteEdge(e)
  \/ \E d \in FindPreds : call = NoCall /\ FindNodes(d)
  \/ \E d \in FindPreds : call = NoCall /\ FindEdges(d)
  \/ \E p \in PredMaps, d \in FindPreds : call = NoCall /\ CheckProperties(p, d)

SpecFind == InitEngine /\ [][FindNext]_vars

(***************************************************************************)
(* create_node on a map of one unsigned 32-bit value, after any creations  *)
(* of the codec pool.                                                      *)
(***************************************************************************)
\* 0, 1, 2^31 - 1, 2^31 and 2^32 - 1
UintValues ==
  { PyInt(0), PyInt(1), PyInt(2147483647), PyBig(32768, 0), PyBig(65535, 65535) }
UintPool == { << <<KeyA, v>> >> : v \in UintValues }

\* create_node({'props': props}) with what it found and what came of it:
\* _pack_node runs before the first write, so a call that raises in
\* _pack_value or _pack_int leaves the files as they were
CreateNodeCall(props) ==
  LET node == [props |-> props]
      cur_addr == _read_cur_addr(properties)
      raised == ~CanPack(node)
      r == create_node(properties, node_ids, node)
  IN  /\ Len(node_rets) < MaxNodeId
      /\ _read_cur_node_id(node_ids) <= MaxNodeId
      /\ raised \/ cur_addr + Len(_pack_node(node)) <= PropBytes
      /\ call' = [op |-> "create_node", props |-> props, raised |-> raised,
                  cur_addr |-> cur_addr, ret |-> IF raised THEN NONE ELSE r.ret,
                  P |-> properties, N |-> node_ids]
      /\ properties' = IF raised THEN properties ELSE r.P
      /\ node_ids' = IF raised THEN node_ids ELSE r.N
      /\ node_rets' = IF raised THEN node_rets ELSE Append(node_rets, r.ret)
      /\ UNCHANGED <<new, edges, edge_rets, deleted, removed, visited_nodes, frames, released, dbms, file_mmap>>

UintNext ==
  \/ \E props \in CodecPool : call = NoCall /\ CreateNode(props)
  \/ \E props \in UintPool : call = NoCall /\ CreateNodeCall(props)

SpecUint == Init /\ [][UintNext]_vars

(***************************************************************************)
(* Vocabulary of the claims on create_edge: what the recorded call found   *)
(* and what it left.                                                       *)
(***************************************************************************)
\* get_node finds the from node, the to node, in the files the call found
CallFromExists == GraphEngine_get_node(call.P, call.N, call.from_node).kind = "Node"
CallToExists ==
  call.to_node # 0 /\ GraphEngine_get_node(call.P, call.N, call.to_node).kind = "Node"
\* the ids the call has handed out, and the placeholders among them
CreatedNodes ==
  { n \in 1..MaxEngineNodeId :
      _read_cur_node_id(call.N) <= n /\ n < _read_cur_node_id(node_ids) }
CreatedPlaceholders ==
  { n \in CreatedNodes : IsLive(n) /\ IsPlaceholder(get_node(properties, node_ids, n)) }
\* remote_props of the call, empty where none was passed
CallRemoteProps == IF call.node_properties.t = "dict" THEN call.node_properties.v ELSE <<>>
\* the three files are as the call found them
StoreUnchanged == properties = call.P /\ node_ids = call.N /\ edges = call.E

\* C22: create_edge with an existing from node and to_remote = r, with or
\* without remote_props, returns an edge id, has created exactly one
\* placeholder whose properties are remote_props plus remote_node = true and
\* remote_node_id = r, and one edge from the from node to that placeholder.
C22_RemoteEdge ==
  (call.op = "create_edge" /\ CallFromExists /\ call.to_node = 0
     /\ call.to_node_remote # <<>>) =>
    /\ ~call.raised
    /\ call.ret # 0
    /\ _read_cur_edge_id(edges) = _read_cur_edge_id(call.E) + 1
    /\ \E p \in CreatedNodes :
         /\ CreatedPlaceholders = {p}
         /\ DictEq(get_node(properties, node_ids, p).props,
                   PlaceholderProps(CallRemoteProps, call.to_node_remote))
         /\ get_edge(properties, edges, call.ret).kind = "Edge"
         /\ get_edge(properties, edges, call.ret).fnid = call.from_node
         /\ get_edge(properties, edges, call.ret).tnid = p

\* C23: create_edge requires exactly one of to and to_remote: a call that
\* supplies both, and a call that supplies neither, is rejected (no edge id
\* is returned) and creates no node, no placeholder and no edge.
C23_ExactlyOne ==
  (call.op = "create_edge" /\ ((call.to_node # 0) <=> (call.to_node_remote # <<>>))) =>
    /\ call.ret = 0
    /\ StoreUnchanged

\* C24: create_edge validates its endpoints before writing: when the from
\* node does not exist (never created, or deleted), or a local to node is
\* supplied and does not exist, it returns null and the store is unchanged.
C24_ValidatesEndpoints ==
  (call.op = "create_edge" /\ (~CallFromExists \/ (call.to_node # 0 /\ ~CallToExists))) =>
    /\ ~call.raised
    /\ call.ret = 0
    /\ StoreUnchanged

(***************************************************************************)
(* Vocabulary of the claims on predicates: the table of the kinds.         *)
(***************************************************************************)
\* p[k] stands in the relation of the kind to the operand v
Relates(kind, x, v) ==
  IF kind = "equal_props" THEN PyEq(x, v)
  ELSE IF kind = "not_equal_props" THEN ~PyEq(x, v)
  ELSE IF kind = "less_props" THEN PyLess(x, v)
  ELSE IF kind = "less_or_equal_props" THEN PyLess(x, v) \/ PyEq(x, v)
  ELSE IF kind = "greater_props" THEN PyLess(v, x)
  ELSE ~PyLess(x, v)
\* the row of the table for one kind of a predicate
TableHolds(p, kind, operand) ==
  IF kind = "negative_props" THEN \A i \in DOMAIN operand.v : ~DictHas(p, operand.v[i])
  ELSE \A i \in DOMAIN operand.v :
         /\ DictHas(p, operand.v[i][1])
         /\ Relates(kind, DictGet(p, operand.v[i][1]), operand.v[i][2])
\* the recorded call tested a predicate of the one kind with the operand {k: v}
OneKeyOf(kind) ==
  /\ call.op = "check_properties"
  /\ Len(call.desirable_props) = 1
  /\ call.desirable_props[1][1] = kind
  /\ call.desirable_props[1][2].t = "dict"
  /\ Len(call.desirable_props[1][2].v) = 1

\* C25: on a non-empty property map p, {greater_or_equal_props: {k: v}}
\* succeeds exactly when k is present and p[k] >= v, is the exact negation
\* of {less_props: {k: v}} for a present k, and fails when k is absent.
C25_GreaterOrEqual ==
  (OneKeyOf("greater_or_equal_props") /\ call.props # <<>>) =>
    IF DictHas(call.props, call.desirable_props[1][2].v[1][1])
    THEN /\ call.res = (IF TableHolds(call.props, "greater_or_equal_props",
                                      call.desirable_props[1][2])
                        THEN "True" ELSE "False")
         /\ (call.res = "True") <=>
              (check_properties(call.props,
                                << <<"less_props", call.desirable_props[1][2]>> >>) = "False")
    ELSE call.res = "False"

\* C26: on a non-empty property map and a well-formed predicate over
\* negative_props, equal_props, not_equal_props, less_props,
\* less_or_equal_props and greater_props, check_properties returns the
\* conjunction of the rows of the table; not_equal_props fails on an absent
\* key.
C26_TableSemantics ==
  (/\ call.op = "check_properties"
   /\ call.props # <<>>
   /\ \A i \in DOMAIN call.desirable_props :
        /\ call.desirable_props[i][1] # "greater_or_equal_props"
        /\ WellFormed(call.desirable_props[i][1], call.desirable_props[i][2])) =>
    call.res = (IF \A i \in DOMAIN call.desirable_props :
                     TableHolds(call.props, call.desirable_props[i][1],
                                call.desirable_props[i][2])
                THEN "True" ELSE "False")

\* a predicate of two well-formed kinds was evaluated on {'b': 1}: its
\* negative_props passes, its not_equal_props names the absent key 'a',
\* and the call failed
C26_Witness ==
  /\ call.op = "check_properties"
  /\ call.props = << <<KeyB, PyInt(1)>> >>
  /\ Len(call.desirable_props) = 2
  /\ call.desirable_props[1] = <<"negative_props", PyList(<<KeyA>>)>>
  /\ call.desirable_props[2] = <<"not_equal_props", PyDict(<< <<KeyA, PyInt(1)>> >>)>>
  /\ call.res = "False"

\* the live records of the store that have at least one property: the node
\* ids get_node returns a record for, the edge ids whose slot has a from node
LiveNodesWithProps ==
  { n \in 1..MaxEngineNodeId :
      /\ get_node(properties, node_ids, n).kind = "Node"
      /\ get_node(properties, node_ids, n).props # <<>> }
LiveEdgesWithProps ==
  { e \in 1..MaxEdgeId :
      /\ Word(edges, _edge_address(e)) # NODE_ID_NONE
      /\ get_edge(properties, edges, e).kind = "Edge"
      /\ get_edge(properties, edges, e).props # <<>> }
\* the list holds each element of S once and nothing else
ListsExactly(ids, S) == Range(ids) = S /\ Len(ids) = Cardinality(S)

\* C27: an empty or absent predicate succeeds on every property map with at
\* least one property, and an empty property map fails every predicate, the
\* empty one included; find_nodes and find_edges with an empty predicate
\* return exactly the live records that have at least one property.
C27_EmptyPredicate ==
  /\ (call.op = "check_properties" /\ call.props # <<>> /\ call.desirable_props = <<>>)
       => call.res = "True"
  /\ (call.op = "check_properties" /\ call.props = <<>>) => call.res = "False"
  /\ (call.op = "find_nodes" /\ call.desirable_props = <<>>)
       => ~call.res.raised /\ ListsExactly(call.res.ids, LiveNodesWithProps)
  /\ (call.op = "find_edges" /\ call.desirable_props = <<>>)
       => ~call.res.raised /\ ListsExactly(call.res.ids, LiveEdgesWithProps)

\* find_nodes with the empty predicate on a store that holds a node with a
\* property, a node without properties and a deleted node: the first is
\* returned, the others are not
C27_Witness ==
  /\ call.op = "find_nodes"
  /\ call.desirable_props = <<>>
  /\ call.res.ids # <<>>
  /\ deleted # {}
  /\ \E n \in ReturnedNodes \ deleted :
       /\ get_node(properties, node_ids, n).kind = "Node"
       /\ get_node(properties, node_ids, n).props = <<>>
       /\ n \notin Range(call.res.ids)

\* some kind of the predicate has an operand of the wrong shape
Malformed(desirable_props) ==
  \E i \in DOMAIN desirable_props :
    /\ desirable_props[i][1] \in AllKinds
    /\ ~WellFormed(desirable_props[i][1], desirable_props[i][2])

\* C28: a predicate with a malformed operand is rejected on every
\* evaluation, whatever the record tested, the other kinds of the predicate
\* and their order, and whether or not the shard holds any record.
C28_MalformedRejected ==
  /\ (call.op = "check_properties" /\ Malformed(call.desirable_props))
       => call.res = "Raise"
  /\ (call.op \in {"find_nodes", "find_edges"} /\ Malformed(call.desirable_props))
       => call.res.raised

\* the byte a read at offset a must return: the last one written there, or
\* zero where nothing was written
Expected(a) == IF a \in DOMAIN file_mmap.written THEN file_mmap.written[a] ELSE 0

\* C29: file growth keeps written data: for every offset written, the mmap
\* holds the last byte written there across any number of growths, the
\* bytes added by a growth are zero until written, a read returns those
\* bytes, and after a read or a write that asked for offset t the mapped
\* length is greater than t.
C29_GrowthKeepsData ==
  /\ \A a \in DOMAIN file_mmap.written : a < Len(file_mmap.mmap)
  /\ \A i \in DOMAIN file_mmap.mmap : file_mmap.mmap[i] = Expected(i - 1)
  /\ call.op \in {"read", "write"} => ~call.raised /\ Len(file_mmap.mmap) > call.t
  /\ call.op = "read" =>
       call.res = [i \in 1..(call.t - call.cur) |-> Expected(call.cur + i - 1)]

\* a read that made the file grow for the second time at least returned a
\* byte written before the first growth
C29_Witness ==
  /\ call.op = "read"
  /\ call.grew
  /\ file_mmap.growths >= 2
  /\ call.cur < FileSize
  /\ call.res[1] # 0

\* the value descriptor of the one property of the record the call wrote:
\* it follows the record length, the number of properties and the key
CallValueDesc ==
  _read_int_from_properties(properties,
      call.cur_addr + 2 * SIZE_UINT + Len(_pack_text(call.props[1][1])))[1]

\* C30: create_node accepts a property value of 0 .. 2^32 - 1, the values
\* from 2^31 on included, stores it under the type tag -3, and get_node of
\* the returned id reads the same value back.
C30_UintRoundTrip ==
  call.op = "create_node" =>
    /\ ~call.raised
    /\ HasProps(get_node(properties, node_ids, call.ret), "Node", call.props)
    /\ CallValueDesc = TYPE_UINT

(***************************************************************************)
(* The adjacency lists under create_edge and remove_edge of live edges:    *)
(* nodes are created and never deleted, and up to MaxListEdges edges are   *)
(* created, so that an edge can be removed from the middle of a list.      *)
(***************************************************************************)
MaxListEdges == 3

InitLists ==
  /\ new = TRUE
  /\ properties = __init__(TRUE).P
  /\ node_ids = __init__(TRUE).N
  /\ edges = _write_cur_edge_id([i \in 0..(7 * (MaxListEdges + 1) - 1) |-> 0], first_id)
  /\ node_rets = <<>>
  /\ edge_rets = <<>>
  /\ deleted = {}
  /\ removed = {}
  /\ visited_nodes = <<>>
  /\ frames = IdleFrames
  /\ released = {}
  /\ dbms = IdleDbms
  /\ call = NoCall
  /\ file_mmap = MadeFile("properties")

\* create_edge between nodes that exist
ListCreateEdge(from_nid, to_nid, edge_nid) ==
  LET r == create_edge(node_ids, edges, from_nid, to_nid, edge_nid)
  IN  /\ IsLive(from_nid) /\ IsLive(to_nid) /\ IsLive(edge_nid)
      /\ Len(edge_rets) < MaxListEdges
      /\ _read_cur_edge_id(edges) <= MaxListEdges
      /\ node_ids' = r.N
      /\ edges' = r.E
      /\ edge_rets' = Append(edge_rets, r.ret)
      /\ UNCHANGED <<new, properties, node_rets, deleted, removed, visited_nodes, frames, released, dbms, call, file_mmap>>

\* remove_edge of an edge that was created and not removed
ListRemoveEdge(eid) == LiveEdge(edges, eid) /\ RemoveEdge(eid)

ListNext ==
  \/ \E props \in Pool : CreateNode(props)
  \/ \E f \in ReturnedNodes, t \in ReturnedNodes, p \in ReturnedNodes : ListCreateEdge(f, t, p)
  \/ \E eid \in ReturnedEdges : ListRemoveEdge(eid)

SpecLists == InitLists /\ [][ListNext]_vars

NoRepeat(sq) == \A i \in DOMAIN sq, j \in DOMAIN sq : sq[i] = sq[j] => i = j

\* the walk from the head has ended at the sentinel without an edge twice
EndsAtNone(sq) == Len(sq) < WalkFuel /\ NoRepeat(sq)

\* C31: after any sequence of create_edge and remove_edge of live edges,
\* both adjacency lists of every node are well-formed doubly-linked lists:
\* the walk along the next pointers from the head reaches the sentinel 0
\* without an edge twice, the prev pointer of the head is 0, and for
\* consecutive edges a, b of a list next(a) = b and prev(b) = a.
C31_ListsWellFormed ==
  \A n \in ReturnedNodes :
    LET F == edges_from(node_ids, edges, n)
        T == edges_to(node_ids, edges, n)
    IN  /\ EndsAtNone(F) /\ EndsAtNone(T)
        /\ F # <<>> => _prev_edge_from(edges, F[1]) = EDGE_ID_NONE
        /\ T # <<>> => _prev_edge_to(edges, T[1]) = EDGE_ID_NONE
        /\ \A i \in 1..(Len(F) - 1) :
             _next_edge_from(edges, F[i]) = F[i + 1] /\ _prev_edge_from(edges, F[i + 1]) = F[i]
        /\ \A i \in 1..(Len(T) - 1) :
             _next_edge_to(edges, T[i]) = T[i + 1] /\ _prev_edge_to(edges, T[i + 1]) = T[i]

\* the middle one of three parallel edges from node 1 to node 2 was
\* removed: the two others follow each other on both lists
C31_Witness ==
  /\ edge_rets = <<1, 2, 3>> /\ removed = {2}
  /\ edges_from(node_ids, edges, 1) = <<3, 1>>
  /\ edges_to(node_ids, edges, 2) = <<3, 1>>
  /\ _prev_edge_from(edges, 1) = 3 /\ _prev_edge_to(edges, 1) = 3

RECURSIVE NewestFirst(_, _)
\* the ids of S among k, k - 1, ..., 1 in this order
NewestFirst(S, k) ==
  IF k = 0 THEN <<>> ELSE (IF k \in S THEN <<k>> ELSE <<>>) \o NewestFirst(S, k - 1)

\* the live edges whose from node is u
LiveOutgoing(u) == { e \in ReturnedEdges : LiveEdge(edges, e) /\ from_nid_of(edges, e) = u }

\* the edge returned last is the head of the from-list of u and of the
\* to-list of v, with the lists of before behind it
SplicedAtHead(u, v) ==
  /\ edges_from(node_ids', edges', u) = <<LastOf(edge_rets')>> \o edges_from(node_ids, edges, u)
  /\ edges_to(node_ids', edges', v) = <<LastOf(edge_rets')>> \o edges_to(node_ids, edges, v)
  /\ _prev_edge_from(edges', LastOf(edge_rets')) = EDGE_ID_NONE
  /\ _prev_edge_to(edges', LastOf(edge_rets')) = EDGE_ID_NONE

Traverser == 1

\* a step of the call the thread is in
TraverseStep ==
  \/ FnCheck(Traverser)
  \/ FnInit(Traverser)
  \/ FnMark(Traverser)
  \/ FnWhile(Traverser)
  \/ FnFor(Traverser)
  \/ FnSet(Traverser)
  \/ FnReturn(Traverser)
  \/ ClPop(Traverser)

TraverseNext ==
  \/ \E n \in ReturnedNodes, h \in ThreadHops, np \in ThreadNodePreds, ep \in ThreadEdgePreds :
       FnCall(Traverser, n, h, np, ep)
  \/ ClCheck(Traverser)
  \/ TraverseStep

SpecTraverse == InitThreads /\ [][TraverseNext]_vars

\* the thread goes on with the call it is in
TraverseFair ==
  \/ []<>(frames[Traverser].pc = "idle")
  \/ []<><<TraverseStep>>_vars

SpecTraverseFair == SpecTraverse /\ TraverseFair /\ WF_vars(FnReturn(Traverser))

\* every call that was entered returns
EveryCallReturns == (frames[Traverser].pc # "idle") ~> (frames[Traverser].pc = "idle")

\* the step puts an entry into the queue only for a node that the entry of
\* the query id does not hold: the start node before the loop (line 331),
\* the target of an edge in the loop (line 358)
EnqueuesUnmarked ==
  /\ (frames[Traverser].pc = "fn_mark" /\ frames'[Traverser].pc = "fn_while")
       => frames[Traverser].node_id \notin visited_nodes[frames[Traverser].query_id]
  /\ (frames[Traverser].pc = "fn_set" /\ frames'[Traverser].pc = "fn_for"
        /\ Len(frames'[Traverser].st.queue) > Len(frames[Traverser].st.queue))
       => LastOf(frames'[Traverser].st.queue)[1] \notin visited_nodes[frames[Traverser].query_id]

\* the loop has ended without an exception: no entry with a positive hop
\* budget is left in the queue
NoBudgetLeft ==
  (frames[Traverser].pc = "fn_return" /\ ~frames[Traverser].st.raised)
    => \A i \in DOMAIN frames[Traverser].st.queue : frames[Traverser].st.queue[i][2] <= 0

\* C33: find_neighbours terminates on every graph and hop budget, cycles,
\* self-loops and parallel edges included; no node is put into the queue
\* more than once per query id (a node is enqueued only while the entry of
\* the query id does not hold it); and the loop does not stop while an
\* entry with a positive hop budget waits in the queue.
C33_Terminates ==
  /\ EveryCallReturns
  /\ [][EnqueuesUnmarked]_vars
  /\ []NoBudgetLeft

\* the ids of a list of edge dicts
IdsOf(edges_) == [i \in DOMAIN edges_ |-> edges_[i].id]

\* the ids of a list whose edges pass the predicate, in list order
Matching(ids, ep) ==
  SelectSeq(ids, LAMBDA e :
    ep = <<>> \/ check_properties(get_edge(properties, edges, e).props, ep) = "True")

\* got lists the edges of ids that pass ep, each with the record of its
\* target under 'to_node'
ListsWithTarget(got, ids, ep) ==
  /\ ~got.raised
  /\ IdsOf(got.edges) = Matching(ids, ep)
  /\ \A i \in DOMAIN got.edges :
       /\ "to_node" \in DOMAIN got.edges[i]
       /\ got.edges[i].to_node
            = GraphEngine_get_node(properties, node_ids, got.edges[i].tnid)

\* got lists the edges of ids that pass ep, each with the record of its
\* source under 'from_node'
ListsWithSource(got, ids, ep) ==
  /\ ~got.raised
  /\ IdsOf(got.edges) = Matching(ids, ep)
  /\ \A i \in DOMAIN got.edges :
       /\ "from_node" \in DOMAIN got.edges[i]
       /\ got.edges[i].from_node
            = GraphEngine_get_node(properties, node_ids, got.edges[i].fnid)

NothingListed(got) == ~got.raised /\ got.edges = <<>>

\* C34: for a node n that exists, get_edges_from(n, P) returns the edges of
\* edges_from(n) whose properties satisfy P (all of them without P), in list
\* order, each with the record of its target node, and get_edges_to(n, P)
\* returns those of edges_to(n) likewise, each with the record of its source
\* node; for a node that does not exist both return the empty list.
C34_EdgesOfNode ==
  \A n \in 1..(Len(node_rets) + 1), ep \in EdgePreds :
    IF GraphEngine_get_node(properties, node_ids, n).kind = "Node"
    THEN /\ ListsWithTarget(get_edges_from(properties, node_ids, edges, n, ep),
                            edges_from(node_ids, edges, n), ep)
         /\ ListsWithSource(get_edges_to(properties, node_ids, edges, n, ep),
                            edges_to(node_ids, edges, n), ep)
    ELSE /\ NothingListed(get_edges_from(properties, node_ids, edges, n, ep))
         /\ NothingListed(get_edges_to(properties, node_ids, edges, n, ep))

(***************************************************************************)
(* Searches with well-formed predicates after creations and deletions of   *)
(* nodes and edges.                                                        *)
(***************************************************************************)
\* none, {'equal_props': {'a': 1}}, {'equal_props': {'w': 1}},
\* {'not_equal_props': {'a': 1}} and {'negative_props': ['a']}
SearchPreds ==
  { <<>>,
    << <<"equal_props", PyDict(NodeProps)>> >>,
    << <<"equal_props", PyDict(EdgeProps)>> >>,
    << <<"not_equal_props", PyDict(NodeProps)>> >>,
    << <<"negative_props", PyList(<<KeyA>>)>> >> }

SearchNext ==
  \/ \E props \in {NodeProps, <<>>} :
       call = NoCall /\ Len(node_rets) < MaxCallNodes /\ EngineCreateNode(props)
  \/ \E n \in ReturnedNodes : call = NoCall /\ EngineDeleteNode(n)
  \/ \E f \in ReturnedNodes, t \in ReturnedNodes, props \in {EdgeProps, <<>>} :
       call = NoCall /\ EngineCreateEdgeOf(f, t, props)
  \/ \E e \in ReturnedEdges : call = NoCall /\ EngineDeleteEdge(e)
  \/ \E d \in SearchPreds : call = NoCall /\ FindNodes(d)
  \/ \E d \in SearchPreds : call = NoCall /\ FindEdges(d)

SpecSearch == InitEngine /\ [][SearchNext]_vars

\* the node ids get_node returns a record for whose properties satisfy d
SatisfyingNodes(d) ==
  { n \in 1..MaxEngineNodeId :
      /\ get_node(properties, node_ids, n).kind = "Node"
      /\ check_properties(get_node(properties, node_ids, n).props, d) = "True" }
\* the edge ids whose slot has a from node and whose properties satisfy d
SatisfyingEdges(d) ==
  { e \in 1..MaxEdgeId :
      /\ Word(edges, _edge_address(e)) # NODE_ID_NONE
      /\ get_edge(properties, edges, e).kind = "Edge"
      /\ check_properties(get_edge(properties, edges, e).props, d) = "True" }

\* C35: after any sequence of creations and deletions, find_nodes(P)
\* returns exactly the nodes for which get_node is non-null and whose
\* properties satisfy P, and never a deleted node; find_edges(P) returns
\* exactly the live edges (from_nid # 0) whose properties satisfy P, and
\* never a removed edge.
C35_FindExactly ==
  /\ call.op = "find_nodes" =>
       /\ ~call.res.raised
       /\ ListsExactly(call.res.ids, SatisfyingNodes(call.desirable_props))
       /\ Range(call.res.ids) \cap deleted = {}
  /\ call.op = "find_edges" =>
       /\ ~call.res.raised
       /\ ListsExactly(call.res.ids, SatisfyingEdges(call.desirable_props))
       /\ Range(call.res.ids) \cap removed = {}

\* find_nodes({'equal_props': {'a': 1}}) on a store with a deleted node, a
\* node {'a': 1} and the property node {'w': 1} of an edge: the node {'a': 1}
\* alone is returned
C35_Witness ==
  /\ call.op = "find_nodes"
  /\ call.desirable_props = << <<"equal_props", PyDict(NodeProps)>> >>
  /\ Len(call.res.ids) = 1
  /\ deleted # {}
  /\ edge_rets # <<>>
  /\ \E n \in 1..MaxEngineNodeId :
       /\ get_node(properties, node_ids, n).kind = "Node"
       /\ get_node(properties, node_ids, n).props = EdgeProps
       /\ n \notin Range(call.res.ids)

\* C36: in every reachable state and for every live node, the first one
\* created included, the total-length field at the start of its property
\* record equals the byte length of the record as packed, and the record
\* lies behind the 4-byte header of the properties file, so that writing
\* the free-address counter changes no byte of a record.
C36_RecordLength ==
  \A n \in ReturnedNodes :
    get_node(properties, node_ids, n).kind = "Node" =>
      /\ get_node(properties, node_ids, n).record_length
           = Len(_pack_node([props |-> get_node(properties, node_ids, n).props]))
      /\ get_node(properties, node_ids, n).record_address >= SIZE_UINT


\* ---------------------------------------------------------------------
\* remove_edge of edges that were removed before (storage.py:557-579)
\* ---------------------------------------------------------------------

\* remove_edge of an edge whose record was cleared by an earlier remove_edge
RemoveAgain(eid) == eid \in removed /\ RemoveEdge(eid)

RemoveNext ==
  \/ \E props \in Pool : CreateNode(props)
  \/ \E f \in ReturnedNodes, t \in ReturnedNodes, p \in ReturnedNodes : ListCreateEdge(f, t, p)
  \/ \E eid \in ReturnedEdges : ListRemoveEdge(eid)
  \/ \E eid \in ReturnedEdges : RemoveAgain(eid)

SpecRemove == InitLists /\ [][RemoveNext]_vars

\* the sequences the store yields are the same before and after the step
SameListings ==
  /\ get_edge_ids(properties', edges') = get_edge_ids(properties, edges)
  /\ \A n \in ReturnedNodes :
       /\ edges_from(node_ids', edges', n) = edges_from(node_ids, edges, n)
       /\ edges_to(node_ids', edges', n) = edges_to(node_ids, edges, n)

\* no walk of an adjacency list yields an edge that was removed
NoRemovedYielded ==
  \A n \in ReturnedNodes, e \in removed :
    /\ ~InSeq(e, edges_from(node_ids, edges, n))
    /\ ~InSeq(e, edges_to(node_ids, edges, n))

\* C37: remove_edge of an edge that was removed before, after any
\* create_edge and remove_edge of other edges in between, leaves the
\* sequences of edges_from and edges_to of every node and of get_edge_ids
\* as they were, and no adjacency walk ever yields a removed edge.
C37_RemoveIdempotent ==
  /\ [][\A e \in removed : RemoveAgain(e) => SameListings]_vars
  /\ []NoRemovedYielded


(***************************************************************************)
(* update_node on an id whose slot holds address 0: an id that was never   *)
(* created, or one that delete_node has cleared (storage.py:525-541).      *)
(***************************************************************************)
\* what update_node raises: _read_node_from_properties returns a map for
\* every address, never None, so the test of line 531 never fires and the
\* only exceptions are those of the readers
UpdateError(node) == IF node.ok THEN "none" ELSE "read error"

\* update_node(nid, {'props': props}) on a slot with address 0, with what it
\* found and what came of it
UpdateDeadCall(nid, props) ==
  LET n == [props |-> props]
      r == update_node(properties, node_ids, nid, n)
      node == _read_node_from_properties(properties, _node_address(node_ids, nid))
  IN  /\ call = NoCall
      /\ CanPack(n)
      /\ _node_address(node_ids, nid) = PROPERTY_ADDRESS_NONE
      /\ r.raised \/ _read_cur_addr(properties) + Len(_pack_node(n)) <= PropBytes
      /\ call' = [op |-> "update_node", nid |-> nid, props |-> props,
                  raised |-> r.raised, error |-> UpdateError(node),
                  P |-> properties, N |-> node_ids, E |-> edges]
      /\ properties' = r.P
      /\ UNCHANGED <<new, node_ids, edges, node_rets, edge_rets, deleted, removed, visited_nodes, frames, released, dbms, file_mmap>>

DeadNext ==
  \/ \E props \in NodePool : call = NoCall /\ CreateNode(props)
  \/ \E nid \in ReturnedNodes, props \in NodePool : call = NoCall /\ UpdateNode(nid, props)
  \/ \E nid \in ReturnedNodes : call = NoCall /\ DeleteNode(nid)
  \/ \E nid \in 1..MaxNodeId, props \in NodePool : UpdateDeadCall(nid, props)

SpecDead == Init /\ [][DeadNext]_vars

\* C38: update_node on an id that was never created or was deleted raises
\* the error 'Updating a non-existing node' and leaves the store as it was:
\* no record written, no slot changed, the free address not advanced.
C38_UpdateDeadRaises ==
  call.op = "update_node" =>
    /\ call.raised
    /\ call.error = "Updating a non-existing node"
    /\ properties = call.P
    /\ node_ids = call.N
    /\ _read_cur_addr(properties) = _read_cur_addr(call.P)


(***************************************************************************)
(* Two /addNode requests handled at once by the threads of one shard's     *)
(* server (api.py:28-40, app.run(..., threaded=True) of api.py:204-213):   *)
(* each thread runs create_node (storage.py:365-374) line by line on the   *)
(* shared files, and nothing orders the lines of one thread against those  *)
(* of the other.                                                           *)
(***************************************************************************)
\* the non-empty property maps of the requests; an empty one is answered
\* with 400 before create_node
RequestPool == NodePool \ { <<>> }

\* thread t moves to frame f, the files to P and N
HandlerStep(t, f, P, N) ==
  /\ frames' = [frames EXCEPT ![t] = f]
  /\ properties' = P
  /\ node_ids' = N
  /\ UNCHANGED <<new, edges, edge_rets, deleted, removed, visited_nodes, released, dbms, call, file_mmap>>

\* add_node: the request is parsed and graph.create_node(props) is entered
AddNodeRequest(t, props) ==
  /\ frames[t].pc = "idle"
  /\ HandlerStep(t, [pc |-> "read_cur_node_id", props |-> props], properties, node_ids)
  /\ UNCHANGED node_rets

\* cur_id = self._read_cur_node_id()
CnReadId(t) ==
  /\ frames[t].pc = "read_cur_node_id"
  /\ HandlerStep(t, [pc |-> "read_cur_addr", props |-> frames[t].props,
                     cur_id |-> _read_cur_node_id(node_ids)], properties, node_ids)
  /\ UNCHANGED node_rets

\* cur_addr = self._read_cur_addr()
CnReadAddr(t) ==
  /\ frames[t].pc = "read_cur_addr"
  /\ HandlerStep(t, [pc |-> "write_node", props |-> frames[t].props,
                     cur_id |-> frames[t].cur_id,
                     cur_addr |-> _read_cur_addr(properties)], properties, node_ids)
  /\ UNCHANGED node_rets

\* next_addr = self._write_node_to_properties(node, cur_addr)
CnWriteNode(t) ==
  /\ frames[t].pc = "write_node"
  /\ frames[t].cur_addr + Len(_pack_node([props |-> frames[t].props])) <= PropBytes
  /\ HandlerStep(t, [pc |-> "write_cur_addr", props |-> frames[t].props,
                     cur_id |-> frames[t].cur_id, cur_addr |-> frames[t].cur_addr,
                     next_addr |-> frames[t].cur_addr
                                     + Len(_pack_node([props |-> frames[t].props]))],
                 _write_node_to_properties(properties, [props |-> frames[t].props],
                                           frames[t].cur_addr),
                 node_ids)
  /\ UNCHANGED node_rets

\* self._write_cur_addr(next_addr)
CnWriteAddr(t) ==
  /\ frames[t].pc = "write_cur_addr"
  /\ HandlerStep(t, [frames[t] EXCEPT !.pc = "write_cur_node_id"],
                 _write_cur_addr(properties, frames[t].next_addr), node_ids)
  /\ UNCHANGED node_rets

\* self._write_cur_node_id(next_id)
CnWriteId(t) ==
  /\ frames[t].pc = "write_cur_node_id"
  /\ frames[t].cur_id < MaxNodeId + 1
  /\ HandlerStep(t, [frames[t] EXCEPT !.pc = "write_property_addr"],
                 properties, _write_cur_node_id(node_ids, frames[t].cur_id + 1))
  /\ UNCHANGED node_rets

\* self._write_property_addr_of_node_id(cur_id, cur_addr); return cur_id
CnWriteSlot(t) ==
  /\ frames[t].pc = "write_property_addr"
  /\ HandlerStep(t, [pc |-> "returned", props |-> frames[t].props,
                     ret |-> frames[t].cur_id],
                 properties,
                 _write_property_addr_of_node_id(node_ids, frames[t].cur_id,
                                                 frames[t].cur_addr))
  /\ node_rets' = Append(node_rets, frames[t].cur_id)

HandlerNext ==
  \/ \E t \in Threads, props \in RequestPool : AddNodeRequest(t, props)
  \/ \E t \in Threads : CnReadId(t)
  \/ \E t \in Threads : CnReadAddr(t)
  \/ \E t \in Threads : CnWriteNode(t)
  \/ \E t \in Threads : CnWriteAddr(t)
  \/ \E t \in Threads : CnWriteId(t)
  \/ \E t \in Threads : CnWriteSlot(t)

SpecHandlers == Init /\ [][HandlerNext]_vars

\* thread t is between the first read and the last write of create_node
InCreateNode(t) == frames[t].pc \notin {"idle", "read_cur_node_id", "returned"}

\* the request of thread t is answered and its node reads back as written
Answered(t) == frames[t].pc = "returned"
ReadsBack(t) == HasProps(get_node(properties, node_ids, frames[t].ret), "Node", frames[t].props)

\* C39: two addNode requests handled at once by one shard never interleave
\* the counter reads, the record write and the counter writes of
\* create_node, so they obtain distinct ids and both records read back with
\* the properties that were written.
C39_Serialised ==
  /\ \A t \in Threads, u \in Threads : InCreateNode(t) /\ InCreateNode(u) => t = u
  /\ \A t \in Threads, u \in Threads :
       Answered(t) /\ Answered(u) /\ t # u =>
         /\ frames[t].ret # frames[u].ret
         /\ ReadsBack(t)
         /\ ReadsBack(u)


(***************************************************************************)
(* DBMS.add_node (dbms.py:42-57) over the workers that answered the ping   *)
(* of DBMS.__init__ (dbms.py:20-40); every worker serves /addNode          *)
(* (api.py:28-40) on a store of its own.                                   *)
(***************************************************************************)
WorkerU == <<117>>
\* the urls handed to DBMS(workers)
Cluster == <<WorkerW, WorkerV, WorkerU>>

\* self.workers after __init__: the workers that answered, in the order
\* given; __init__ raises when none did
Answering(alive) == SelectSeq(Cluster, LAMBDA w : w \in alive)
AliveLists ==
  { Answering(alive) : alive \in (SUBSET { Cluster[i] : i \in DOMAIN Cluster }) \ { {} } }

\* random.randrange(start, stop, 1): the values it can return; it raises
\* ValueError where there is none
randrange(start, stop) == start..(stop - 1)

\* the props of the requests: {'a': 1}, {'a': 2} and {}
AddNodePool == Pool \cup { <<>> }

\* /addNode of a worker with the files F: [status, F, node_id]
AddNodeResponse(F, props) ==
  IF props = <<>>
  THEN [status |-> BAD_REQUEST_CODE, F |-> F, node_id |-> 0]
  ELSE [status |-> SUCCESS_CODE,
        F |-> [P |-> GraphEngine_create_node(F.P, F.N, props).P,
               N |-> GraphEngine_create_node(F.P, F.N, props).N],
        node_id |-> GraphEngine_create_node(F.P, F.N, props).ret]

\* the worker's files have room for one more node
HasRoom(F, props) ==
  /\ _read_cur_node_id(F.N) <= MaxNodeId
  /\ _read_cur_addr(F.P) + Len(_pack_node([props |-> props])) <= PropBytes

InitCluster ==
  \E ws \in AliveLists :
    /\ new = TRUE
    /\ properties = __init__(TRUE).P
    /\ node_ids = __init__(TRUE).N
    /\ edges = __init__(TRUE).E
    /\ node_rets = <<>>
    /\ edge_rets = <<>>
    /\ deleted = {}
    /\ removed = {}
    /\ visited_nodes = <<>>
    /\ frames = IdleFrames
    /\ released = {}
    /\ dbms = [pc |-> "idle", workers |-> ws,
               stores |-> [i \in 1..Len(ws) |-> [P |-> __init__(TRUE).P, N |-> __init__(TRUE).N]],
               props |-> <<>>, worker_id |-> 0, status |-> 0, ret |-> <<>>]
    /\ call = NoCall
    /\ file_mmap = MadeFile("properties")

\* the DBMS moves to d, nothing else changes
ClusterStep(d) ==
  /\ dbms' = d
  /\ UNCHANGED <<new, properties, node_ids, edges, node_rets, edge_rets, deleted, removed, visited_nodes, frames, released, call, file_mmap>>

\* add_node(props) is called
AddNodeCall(props) ==
  /\ dbms.pc \in {"idle", "returned", "raised"}
  /\ \A i \in DOMAIN dbms.stores : HasRoom(dbms.stores[i], props)
  /\ ClusterStep([dbms EXCEPT !.pc = "choose", !.props = props, !.worker_id = 0,
                              !.status = 0, !.ret = <<>>])

\* worker_id = random.randrange(start=0, stop=len(self.workers) - 1, step=1)
AddNodeChoose(worker_id) ==
  /\ dbms.pc = "choose"
  /\ worker_id \in randrange(0, Len(dbms.workers) - 1)
  /\ ClusterStep([dbms EXCEPT !.pc = "post", !.worker_id = worker_id])

\* randrange has nothing to choose from: ValueError leaves add_node
AddNodeRaise ==
  /\ dbms.pc = "choose"
  /\ randrange(0, Len(dbms.workers) - 1) = {}
  /\ ClusterStep([dbms EXCEPT !.pc = "raised"])

\* requests.post(url, ...); a 200 returns f'{worker}${node_id}', any other
\* status is printed and the loop chooses again
AddNodePost ==
  LET r == AddNodeResponse(dbms.stores[dbms.worker_id + 1], dbms.props)
  IN  /\ dbms.pc = "post"
      /\ ClusterStep(IF r.status # SUCCESS_CODE
                     THEN [dbms EXCEPT !.pc = "choose", !.status = r.status]
                     ELSE [dbms EXCEPT !.pc = "returned", !.status = r.status,
                                       !.stores[dbms.worker_id + 1] = r.F,
                                       !.ret = CompositeId(dbms.workers[dbms.worker_id + 1],
                                                           r.node_id)])

ClusterNext ==
  \/ \E props \in AddNodePool : AddNodeCall(props)
  \/ \E worker_id \in 0..(Len(Cluster) - 1) : AddNodeChoose(worker_id)
  \/ AddNodeRaise
  \/ AddNodePost

SpecCluster == InitCluster /\ [][ClusterNext]_vars

\* every alive worker can be the one chosen
AnyWorkerChosen ==
  dbms.pc = "choose" =>
    \A i \in 0..(Len(dbms.workers) - 1) : ENABLED AddNodeChoose(i)

\* with one alive worker add_node does not fail
OneWorkerServes == Len(dbms.workers) = 1 => dbms.pc # "raised"

\* a returned id is that of a node of the worker it names
ReturnsComposite ==
  dbms.pc = "returned" =>
    \E i \in DOMAIN dbms.workers, n \in 1..MaxNodeId :
      /\ dbms.ret = CompositeId(dbms.workers[i], n)
      /\ GraphEngine_get_node(dbms.stores[i].P, dbms.stores[i].N, n).kind = "Node"

\* after an answer other than 200 a worker is chosen again
RetriesAfterFailure ==
  dbms.pc = "post" /\ dbms'.pc # "returned" => dbms'.pc = "choose" /\ dbms'.status # SUCCESS_CODE

\* C40: add_node chooses among all alive workers: every alive worker can
\* receive the new node; with exactly one alive worker add_node places the
\* node on it and returns '<worker>$<id>' instead of failing; after an
\* answer other than 200 it chooses a worker again.
C40_ChoosesAmongAlive ==
  /\ [](AnyWorkerChosen /\ OneWorkerServes /\ ReturnsComposite)
  /\ [][RetriesAfterFailure]_vars

====
